---------------------------- MODULE Spec2Model ----------------------------
(***************************************************************************)
(* A model of the odds-to-fixture reconciliation of the FootballData       *)
(* dashboard (app/streamlit_app.py) and of the odds client it calls        *)
(* (footballdata/extract/odds_api.py).                                     *)
(*                                                                         *)
(* Text is modelled as a sequence of characters, each character a string.  *)
(* ASCII characters stand for themselves; a character outside ASCII is     *)
(* written by its code point ("U+00E9").  A value of a data-frame cell     *)
(* that holds a name is a record [t, s]: t = "str" with the characters s,  *)
(* t = "None" (Python's None) or t = "nan" (the float NaN that pandas      *)
(* puts where a value is missing).                                         *)
(***************************************************************************)
EXTENDS Integers, Sequences, FiniteSets, TLC

VARIABLES
    name,                 \* normaliser: the value handed to _normalize_team_name
    key,                  \* normaliser: what the call gave back
    rekey,                \* normaliser: what the call on the returned key gave back
    npc,                  \* normaliser: "off" | "idle" | "called" | "again"
    fixtures_df,          \* summaries: the fixture frame handed to the builders
    odds_df,              \* summaries: the odds frame handed to the builders
    moneyline,            \* summaries: what build_moneyline_summary gave back
    totals,               \* summaries: what build_totals_table gave back
    rpc,                  \* summaries: "off" | "idle" | "moneyline" | "totals"
    memo,                 \* odds: what st.cache_data holds for get_cl_odds_data (<<>> or <<value>>)
    fetches,              \* odds: the fetches of the running call, each with its outcome
    odds_result,          \* odds: how the last call of get_cl_odds_data ended
    calls,                \* odds: the calls of get_cl_odds_data made so far
    opc,                  \* odds: "off" | "idle" | "first" | "fallback" | "returned" | "raised"
    odds_cache,           \* render: st.session_state["odds_cache"] (<<>>: None)
    last_success,         \* render: what the last get_cl_odds_data() of the session that returned gave
    odds_call,            \* render: how get_cl_odds_data() ended in this render
    selected_fixture_df,  \* render: the row of the selected fixture
    odds_raw_df,          \* render: the odds frame in use
    odds_meta,            \* render: the quota meta in use
    used_markets,         \* render: the markets in use
    odds_table,           \* render: <<>> or the moneyline summary built
    totals_table,         \* render: <<>> or the totals table built
    shown,                \* render: what the page shows, in order
    render_error,         \* render: <<>> or the exception that ended the script run
    renders,              \* render: the script runs of the session so far
    debug_odds,           \* render: DEBUG_ODDS, the checkbox "Debug odds matching"
    debug_events,         \* render: the event ids the debug block listed
    vpc,                  \* render: "off" | "idle" | "moneyline" | "totals" | "done" | "raised"
    matches,              \* selection: the rows of the scheduled matches the API answers with
    upcoming,             \* selection: <<>> or what get_upcoming_cl_matches gave back
    spc,                  \* selection: "off" | "idle" | "padded" | "done"
    heap,                 \* twice: the frames by object, heap[1] the fixture frame and heap[2] the odds frame passed in
    given,                \* twice: the two frames as they were passed to the first call
    builder,              \* twice: the builder called, "moneyline" or "totals"
    first,                \* twice: <<>> or what the first call gave back
    second,               \* twice: <<>> or what the second call gave back
    tpc,                  \* twice: "off" | "idle" | "once" | "twice"
    raw_matches,          \* warehouse: the table raw.matches
    watermarks,           \* warehouse: the rows of meta.ingestion_watermarks_v2, by (source, entity, key)
    latest,               \* upsert: for each key value of a batch so far, the rows of the last batch with it
    upsert_result,        \* upsert: <<>> or how the last call of upsert_df ended
    again,                \* upsert: whether the last call repeated the batch of the call before on the table that call left
    upserts,              \* upsert: the calls of upsert_df made so far
    upc,                  \* upsert: "off" | "idle"
    clock, \* the time now, in ticks after 1970-01-01
    window, \* <<>> or the first and the last date the extract of the run requested
    since, \* the high watermark the run read
    etl_df, \* the frame the extract task returned, <<>> before that
    tries, \* how many times the extract task ran in the run
    failed, \* the task of the run that raised, "" when none did
    now, \* utc_now() of the run
    started, \* the watermark row when the run started
    etl_log, \* the last two finished runs: since, outcome, the dates requested, now, the watermark row before and after
    etl_sum, \* the runs so far: how many ended, the last two successful ones, the dates they requested
    epc, \* where the flow is: "off", "idle" or the task that runs next
    api_key, \* settings.ODDS_API_KEY, "" when not configured
    entry, \* the function called: "_get" or "fetch_champions_league_odds"
    attempts, \* attempts of _get: the requests of the call so far
    requests, \* how many HTTP requests were issued, in all calls
    slept, \* the time.sleep calls of the call, in seconds
    get_result, \* <<>> during the call, then what it returned or raised
    gets, \* how many calls were made
    resp, \* <<>>, or the response to the last request of the call
    gpc, \* where the client is: "off", "idle", "request" or "done"
    chunk_call, \* <<>> or the last call of _chunk_date_range: its arguments and what it gave
    cpc, \* where the chunking is: "off" or "idle"
    wm_call, \* <<>> or the last call of a watermark setter: the setter, its key, its value and the table before it
    wpc  \* where the setter calls are: "off" or "idle"

nvars == <<name, key, rekey, npc>>

rvars == <<fixtures_df, odds_df, moneyline, totals, rpc>>

ovars == <<memo, fetches, odds_result, calls, opc>>

vvars == <<odds_cache, last_success, odds_call, selected_fixture_df, odds_raw_df, odds_meta,
           used_markets, odds_table, totals_table, shown, render_error, renders,
           debug_odds, debug_events, vpc>>

svars == <<matches, upcoming, spc>>

tvars == <<heap, given, builder, first, second, tpc>>

dbvars == <<raw_matches, watermarks>>

uvars == <<latest, upsert_result, again, upserts, upc>>

evars == <<clock, since, window, etl_df, tries, failed, now, started, etl_log, etl_sum, epc>>

gvars == <<api_key, entry, attempts, requests, slept, get_result, gets, resp, gpc>>

cvars == <<chunk_call, cpc>>

wvars == <<wm_call, wpc>>

\* The parts of the later sections.
xvars == <<vvars, svars, tvars, dbvars, uvars, evars, gvars, cvars, wvars>>

vars == <<nvars, rvars, ovars, xvars>>

\* Every part but the render.
exceptRender == <<nvars, rvars, ovars, svars, tvars, dbvars, uvars, evars, gvars, cvars, wvars>>

\* Every part but the selection of the upcoming matches.
exceptSelection == <<nvars, rvars, ovars, vvars, tvars, dbvars, uvars, evars, gvars, cvars, wvars>>

\* Every part but the builders called twice.
exceptTwice == <<nvars, rvars, ovars, vvars, svars, dbvars, uvars, evars, gvars, cvars, wvars>>

\* Every part but the warehouse tables.
exceptDatabase == <<nvars, rvars, ovars, vvars, svars, tvars, uvars, evars, gvars, cvars, wvars>>

\* Every part but the calls of upsert_df and the warehouse tables.
exceptUpsert == <<nvars, rvars, ovars, vvars, svars, tvars, evars, gvars, cvars, wvars>>

\* Every part but the runs of daily_etl and the warehouse tables.
exceptEtl == <<nvars, rvars, ovars, vvars, svars, tvars, uvars, gvars, cvars, wvars>>

\* Every part but the calls of the odds client.
exceptGet == <<nvars, rvars, ovars, vvars, svars, tvars, dbvars, uvars, evars, cvars, wvars>>

\* Every part but the calls of _chunk_date_range.
exceptChunk == <<nvars, rvars, ovars, vvars, svars, tvars, dbvars, uvars, evars, gvars, wvars>>

\* Every part but the calls of the watermark setters and the warehouse tables.
exceptWatermark == <<nvars, rvars, ovars, vvars, svars, tvars, uvars, evars, gvars, cvars>>

(***************************************************************************)
(* Characters                                                              *)
(***************************************************************************)
AsciiLower ==
    {"a","b","c","d","e","f","g","h","i","j","k","l","m",
     "n","o","p","q","r","s","t","u","v","w","x","y","z"}

AsciiUpper ==
    {"A","B","C","D","E","F","G","H","I","J","K","L","M",
     "N","O","P","Q","R","S","T","U","V","W","X","Y","Z"}

AsciiDigit == {"0","1","2","3","4","5","6","7","8","9"}

\* U+00E9 (e acute), U+00C9 (E acute), U+00F8 (o with stroke): letters outside ASCII.
NonAsciiLetter == {"U+00E9", "U+00C9", "U+00F8"}

\* U+0301, the combining acute accent: unicodedata.combining(ch) # 0.
CombiningMark == {"U+0301"}

\* str.lower() on one character.
LowerChar(ch) ==
    CASE ch = "A" -> "a" [] ch = "B" -> "b" [] ch = "C" -> "c" [] ch = "D" -> "d"
      [] ch = "E" -> "e" [] ch = "F" -> "f" [] ch = "G" -> "g" [] ch = "H" -> "h"
      [] ch = "I" -> "i" [] ch = "J" -> "j" [] ch = "K" -> "k" [] ch = "L" -> "l"
      [] ch = "M" -> "m" [] ch = "N" -> "n" [] ch = "O" -> "o" [] ch = "P" -> "p"
      [] ch = "Q" -> "q" [] ch = "R" -> "r" [] ch = "S" -> "s" [] ch = "T" -> "t"
      [] ch = "U" -> "u" [] ch = "V" -> "v" [] ch = "W" -> "w" [] ch = "X" -> "x"
      [] ch = "Y" -> "y" [] ch = "Z" -> "z"
      [] ch = "U+00C9" -> "U+00E9"
      [] OTHER -> ch

\* str.upper() on one character.
UpperChar(ch) ==
    CASE ch = "a" -> "A" [] ch = "b" -> "B" [] ch = "c" -> "C" [] ch = "d" -> "D"
      [] ch = "e" -> "E" [] ch = "f" -> "F" [] ch = "g" -> "G" [] ch = "h" -> "H"
      [] ch = "i" -> "I" [] ch = "j" -> "J" [] ch = "k" -> "K" [] ch = "l" -> "L"
      [] ch = "m" -> "M" [] ch = "n" -> "N" [] ch = "o" -> "O" [] ch = "p" -> "P"
      [] ch = "q" -> "Q" [] ch = "r" -> "R" [] ch = "s" -> "S" [] ch = "t" -> "T"
      [] ch = "u" -> "U" [] ch = "v" -> "V" [] ch = "w" -> "W" [] ch = "x" -> "X"
      [] ch = "y" -> "Y" [] ch = "z" -> "Z"
      [] ch = "U+00E9" -> "U+00C9"
      [] OTHER -> ch

\* unicodedata.normalize("NFKD", ch): the compatibility decomposition of one character.
Nfkd(ch) ==
    CASE ch = "U+00E9" -> <<"e", "U+0301">>
      [] ch = "U+00C9" -> <<"E", "U+0301">>
      [] OTHER -> <<ch>>

\* The regular expression class \w of a str pattern: Unicode letters and digits, and "_".
IsWordChar(ch) ==
    ch \in AsciiLower \cup AsciiUpper \cup AsciiDigit \cup NonAsciiLetter \cup {"_"}

\* The regular expression class [a-z0-9].
IsKeyChar(ch) == ch \in AsciiLower \cup AsciiDigit

\* The regular expression class \s (every character the last substitution can meet).
IsSpace(ch) == ch = " "

(***************************************************************************)
(* _normalize_team_name, step by step                                      *)
(***************************************************************************)
RECURSIVE NfkdText(_)
NfkdText(text) ==
    IF text = <<>> THEN <<>> ELSE Nfkd(Head(text)) \o NfkdText(Tail(text))

StripCombining(text) == SelectSeq(text, LAMBDA ch : ch \notin CombiningMark)

LowerText(text) == [i \in 1..Len(text) |-> LowerChar(text[i])]

\* The pattern with the alternative "cf" left out.
REMOVED_TOKENS_WithoutCf ==
    { <<"f","c">>, <<"a","c">>, <<"c","l","u","b">>, <<"t","h","e">> }

\* The tokens of the pattern \b(fc|cf|ac|club|the)\b.
REMOVED_TOKENS ==
    { <<"f","c">>, <<"c","f">>, <<"a","c">>, <<"c","l","u","b">>, <<"t","h","e">> }

\* \b at the place before text[p] (p in 1..Len(text)+1): a word character on
\* exactly one side, the ends of the text counting as non-word.
WordBoundary(text, p) ==
    LET before == p > 1 /\ IsWordChar(text[p - 1])
        after  == p <= Len(text) /\ IsWordChar(text[p])
    IN  before # after

\* The token the pattern matches at place p, as a set (empty when none does).
TokenAt(text, p) ==
    { tok \in REMOVED_TOKENS :
        /\ WordBoundary(text, p)
        /\ p + Len(tok) - 1 <= Len(text)
        /\ SubSeq(text, p, p + Len(tok) - 1) = tok
        /\ WordBoundary(text, p + Len(tok)) }

\* re.sub(r"\b(fc|cf|ac|club|the)\b", " ", text): leftmost matches, left to
\* right, none overlapping; the boundaries are those of the original text.
RECURSIVE SubTokensFrom(_, _)
SubTokensFrom(text, p) ==
    IF p > Len(text) THEN <<>>
    ELSE LET hit == TokenAt(text, p)
         IN  IF hit # {}
             THEN <<" ">> \o SubTokensFrom(text, p + Len(CHOOSE tok \in hit : TRUE))
             ELSE <<text[p]>> \o SubTokensFrom(text, p + 1)

SubTokens(text) == SubTokensFrom(text, 1)

\* re.sub(r"[^a-z0-9]+", " ", text): each run of other characters becomes one space.
RECURSIVE SubNonKeyFrom(_, _)
SubNonKeyFrom(text, p) ==
    IF p > Len(text) THEN <<>>
    ELSE IF IsKeyChar(text[p]) THEN <<text[p]>> \o SubNonKeyFrom(text, p + 1)
    ELSE IF p > 1 /\ ~IsKeyChar(text[p - 1]) THEN SubNonKeyFrom(text, p + 1)
    ELSE <<" ">> \o SubNonKeyFrom(text, p + 1)

SubNonKey(text) == SubNonKeyFrom(text, 1)

\* re.sub(r"\s+", " ", text)
RECURSIVE SubSpacesFrom(_, _)
SubSpacesFrom(text, p) ==
    IF p > Len(text) THEN <<>>
    ELSE IF ~IsSpace(text[p]) THEN <<text[p]>> \o SubSpacesFrom(text, p + 1)
    ELSE IF p > 1 /\ IsSpace(text[p - 1]) THEN SubSpacesFrom(text, p + 1)
    ELSE <<" ">> \o SubSpacesFrom(text, p + 1)

SubSpaces(text) == SubSpacesFrom(text, 1)

\* str.strip()
RECURSIVE Strip(_)
Strip(text) ==
    IF text = <<>> THEN <<>>
    ELSE IF IsSpace(Head(text)) THEN Strip(Tail(text))
    ELSE IF IsSpace(text[Len(text)]) THEN Strip(SubSeq(text, 1, Len(text) - 1))
    ELSE text

\* Cell values.
None == [t |-> "None", s |-> <<>>]
NaN == [t |-> "nan", s |-> <<>>]
Str(chars) == [t |-> "str", s |-> chars]

\* What a call gives: a returned key, or the exception it raised.
Returned(chars) == [raised |-> "", key |-> chars]
Raised(exc) == [raised |-> exc, key |-> <<>>]

\* "not name": None and "" are falsy; a float NaN is truthy.
Falsy(value) == value.t = "None" \/ (value.t = "str" /\ value.s = <<>>)

\* Lines 31-36 on a str.
NormalizeText(text) ==
    Strip(SubSpaces(SubNonKey(SubTokens(LowerText(StripCombining(NfkdText(text)))))))

\* _normalize_team_name(name).  unicodedata.normalize raises TypeError for an
\* argument that is not a str.
_normalize_team_name(value) ==
    IF Falsy(value) THEN Returned(<<>>)
    ELSE IF value.t # "str" THEN Raised("TypeError")
    ELSE Returned(NormalizeText(value.s))


(***************************************************************************)
(* Frames.  A frame is the sequence of its rows; the empty frame is <<>>.  *)
(* A row of the odds frame has the columns fetch_champions_league_odds     *)
(* writes and the summaries read; a row of the fixture frame has the       *)
(* columns get_upcoming_cl_matches returns and the summaries read.         *)
(* An optional number (a cell that may hold NaN) is <<>> or <<n>>.         *)
(* Prices are in hundredths, goal lines in tenths, times in seconds.       *)
(***************************************************************************)
\* What a summary builder gives: a frame, or the exception it raised.
Frame(rows) == [raised |-> "", rows |-> rows]
RaisedFrame(exc) == [raised |-> exc, rows |-> <<>>]

\* pd.DataFrame()
EmptyFrame == Frame(<<>>)

\* The set of the elements of a sequence.
Range(seq) == { seq[i] : i \in 1..Len(seq) }

\* The names the generated frames hold (teams, outcomes), None and NaN.
FC_Porto == <<"F","C"," ","P","o","r","t","o">>
Porto == <<"P","o","r","t","o">>
Ajax == <<"A","j","a","x">>
PSV == <<"P","S","V">>
Draw == <<"D","r","a","w">>
Empate == <<"E","m","p","a","t","e">>

Over == <<"O","v","e","r">>
Under == <<"U","n","d","e","r">>

FrameNames ==
    { Str(t) : t \in {FC_Porto, Porto, Ajax, PSV, Draw, Empate, Over, Under} }
        \cup {None, NaN}

\* _normalize_team_name on each of them, worked out once.
NormalizedNames == [value \in FrameNames |-> _normalize_team_name(value)]

\* df[col].apply(_normalize_team_name), one cell.
Normalized(value) ==
    IF value \in FrameNames THEN NormalizedNames[value] ELSE _normalize_team_name(value)

\* df[col].apply(_normalize_team_name) raises when one call does.
NormRaises(value) == Normalized(value).raised # ""
NormKey(value) == Normalized(value).key

TeamsRaise(rows) ==
    \E i \in 1..Len(rows) : NormRaises(rows[i].home_team) \/ NormRaises(rows[i].away_team)

\* The join that also takes a quote whose sides are the fixture's, reversed.
MatchesKeys_EitherOrder(quote, fixture) ==
    \/ /\ NormKey(quote.home_team) = NormKey(fixture.home_team)
       /\ NormKey(quote.away_team) = NormKey(fixture.away_team)
    \/ /\ NormKey(quote.home_team) = NormKey(fixture.away_team)
       /\ NormKey(quote.away_team) = NormKey(fixture.home_team)

\* odds.merge(fixtures_subset, on=["home_norm", "away_norm"], how="inner")
\* for one odds row: its match with every fixture row of the same key pair.
MatchesKeys(quote, fixture) ==
    /\ NormKey(quote.home_team) = NormKey(fixture.home_team)
    /\ NormKey(quote.away_team) = NormKey(fixture.away_team)

MergedRow(quote, fixture) ==
    [ event_id |-> quote.event_id,
      bookmaker_key |-> quote.bookmaker_key,
      bookmaker_last_update |-> quote.bookmaker_last_update,
      market_key |-> quote.market_key,
      outcome_name |-> quote.outcome_name,
      outcome_price |-> quote.outcome_price,
      outcome_point |-> quote.outcome_point,
      home_norm |-> NormKey(fixture.home_team),
      away_norm |-> NormKey(fixture.away_team),
      matchday |-> fixture.matchday,
      fixture_home_team |-> fixture.home_team,
      fixture_away_team |-> fixture.away_team ]

RECURSIVE MergeOne(_, _, _)
MergeOne(quote, fixtures, j) ==
    IF j > Len(fixtures) THEN <<>>
    ELSE (IF MatchesKeys(quote, fixtures[j])
          THEN <<MergedRow(quote, fixtures[j])>> ELSE <<>>)
         \o MergeOne(quote, fixtures, j + 1)

\* The inner join keeps the order of the left (odds) rows.
RECURSIVE MergeFrom(_, _, _)
MergeFrom(odds, fixtures, i) ==
    IF i > Len(odds) THEN <<>>
    ELSE MergeOne(odds[i], fixtures, 1) \o MergeFrom(odds, fixtures, i + 1)

Merge(odds, fixtures) == MergeFrom(odds, fixtures, 1)

\* Series.median(): the middle of the sorted values, the mean of the two
\* middle ones when their number is even; <<>> (NaN) when there is none.
SortedPrices(prices) == SortSeq(prices, LAMBDA a, b : a < b)

\* The median taken as the lower of the two middle values.
Median_LowerMiddle(prices) ==
    IF prices = <<>> THEN <<>>
    ELSE LET sorted == SortedPrices(prices)
         IN  << sorted[(Len(sorted) + 1) \div 2] >>

Median(prices) ==
    IF prices = <<>> THEN <<>>
    ELSE LET sorted == SortedPrices(prices)
             n == Len(sorted)
         IN  IF n % 2 = 1 THEN << sorted[(n + 1) \div 2] >>
             ELSE << (sorted[n \div 2] + sorted[n \div 2 + 1]) \div 2 >>

\* The column of a frame as a sequence.
Column(rows, col) == [i \in 1..Len(rows) |-> rows[i][col]]

\* The values of a column of optional numbers that are not NaN.
Present(values) == { values[i][1] : i \in { k \in 1..Len(values) : values[k] # <<>> } }

\* Series.max() of a column of times: NaT is skipped; NaT when all are.
MaxOf(values) ==
    IF Present(values) = {} THEN <<>>
    ELSE << CHOOSE v \in Present(values) : \A w \in Present(values) : w <= v >>

\* The count of the values that are not null, distinct or not.
NUnique_Count(values) == Cardinality({ i \in 1..Len(values) : values[i].t = "str" })

\* Series.nunique(): the number of distinct values that are not null.
NUnique(values) == Cardinality({ v \in Range(values) : v.t = "str" })

\* "-" (here <<>>) for NaT, else strftime("%d/%m %H:%M"): the time to the minute.
FormatUpdate(time) == IF time = <<>> THEN <<>> ELSE << time[1] \div 60 >>

\* The draw synonyms of _map_outcome.
DRAW_KEYS == { <<"d","r","a","w">>, <<"e","m","p","a","t","e">> }

\* _map_outcome on a row whose outcome name normalises.
\* The mapping that tests the draw synonyms only.
OutcomeLabel_NoTeams(row) ==
    IF NormKey(row.outcome_name) \in DRAW_KEYS THEN "Empate" ELSE "None"

OutcomeLabel(row) ==
    LET outcome_norm == NormKey(row.outcome_name)
    IN  IF outcome_norm = row.home_norm THEN "Mandante"
        ELSE IF outcome_norm = row.away_norm THEN "Visitante"
        ELSE IF outcome_norm \in DRAW_KEYS THEN "Empate"
        ELSE "None"

\* grouped.get(label): the median price of the rows of one label.
LabelMedian(rows, label) ==
    Median(Column(SelectSeq(rows, LAMBDA r : OutcomeLabel(r) = label), "outcome_price"))

\* Lines 189-208: the one summary row.
MoneylineRow(rows) ==
    LET match_info == rows[1]
    IN  [ Rodada |-> match_info.matchday,
          Partida |-> <<match_info.fixture_home_team, match_info.fixture_away_team>>,
          Casas |-> NUnique(Column(rows, "bookmaker_key")),
          Atualizado |-> FormatUpdate(MaxOf(Column(rows, "bookmaker_last_update"))),
          Mandante |-> LabelMedian(rows, "Mandante"),
          Empate |-> LabelMedian(rows, "Empate"),
          Visitante |-> LabelMedian(rows, "Visitante") ]

\* build_moneyline_summary(fixtures_df, odds_df)
build_moneyline_summary(fixtures_df_, odds_df_) ==
    IF fixtures_df_ = <<>> \/ odds_df_ = <<>> THEN EmptyFrame
    ELSE IF TeamsRaise(fixtures_df_) THEN RaisedFrame("TypeError")
    ELSE LET odds == SelectSeq(odds_df_, LAMBDA q : q.market_key = "h2h")
         IN  IF odds = <<>> THEN EmptyFrame
             ELSE IF TeamsRaise(odds) THEN RaisedFrame("TypeError")
             ELSE LET merged == Merge(odds, fixtures_df_)
                  IN  IF merged = <<>> THEN EmptyFrame
                      ELSE IF \E i \in 1..Len(merged) : NormRaises(merged[i].outcome_name)
                           THEN RaisedFrame("TypeError")
                      ELSE LET retained ==
                                   SelectSeq(merged, LAMBDA r : OutcomeLabel(r) # "None")
                           IN  IF retained = <<>> THEN EmptyFrame
                               ELSE Frame(<<MoneylineRow(retained)>>)

\* A letter that has an upper and a lower case.
IsCased(ch) == ch \in AsciiLower \cup AsciiUpper \cup {"U+00E9", "U+00C9"}

\* str.title(): a cased character is upper case after an uncased one (or at
\* the start) and lower case after a cased one.
Title(text) ==
    [i \in 1..Len(text) |->
        IF i > 1 /\ IsCased(text[i - 1]) THEN LowerChar(text[i]) ELSE UpperChar(text[i])]

\* The rows groupby(["outcome_point", "outcome_name"]) keeps: a null key drops the row.
Grouped(merged) ==
    SelectSeq(merged, LAMBDA r : r.outcome_point # <<>> /\ r.outcome_name.t = "str")

\* The columns of the pivot after rename(columns=lambda c: c.title()).
PivotColumns(merged) == { Title(r.outcome_name.s) : r \in Range(Grouped(merged)) }

\* The goal lines of the pivot, ascending.
PivotLines(merged) ==
    SortSeq(
        LET lines == { r.outcome_point[1] : r \in Range(Grouped(merged)) }
            RECURSIVE AsSeq(_)
            AsSeq(S) == IF S = {} THEN <<>>
                        ELSE LET x == CHOOSE y \in S : TRUE IN <<x>> \o AsSeq(S \ {x})
        IN  AsSeq(lines),
        LAMBDA a, b : a < b)

\* The cells of one goal line under the column(s) titled `column`: one cell
\* for each outcome name with that title, the median of its prices at the
\* line, NaN (<<>>) when the line has no quote of that name.
PivotCells(merged, line, column) ==
    { Median(Column(SelectSeq(Grouped(merged),
                              LAMBDA r : r.outcome_point = <<line>> /\ r.outcome_name.s = nm),
                    "outcome_price")) :
        nm \in { r.outcome_name.s : r \in { g \in Range(Grouped(merged)) :
                                               Title(g.outcome_name.s) = column } } }

\* Lines 258-272 for one goal line.
TotalsRow(merged, line) ==
    LET match_row == merged[1]
        at_line == SelectSeq(merged, LAMBDA r : r.outcome_point = <<line>>)
    IN  [ Rodada |-> match_row.matchday,
          Partida |-> <<match_row.fixture_home_team, match_row.fixture_away_team>>,
          Linha |-> line,
          Over |-> PivotCells(merged, line, Over),
          Under |-> PivotCells(merged, line, Under),
          Casas |-> NUnique(Column(at_line, "bookmaker_key")),
          Atualizado |-> FormatUpdate(MaxOf(Column(at_line, "bookmaker_last_update"))) ]

\* pivot[[..., "Over", "Under", ...]].sort_values(["Linha (gols)"]): a list
\* of labels with one that is no column raises KeyError.
SelectColumns(merged) ==
    IF ~({Over, Under} \subseteq PivotColumns(merged)) THEN RaisedFrame("KeyError")
    ELSE LET lines == PivotLines(merged)
         IN  Frame([i \in 1..Len(lines) |-> TotalsRow(merged, lines[i])])

\* build_totals_table(fixtures_df, odds_df)
build_totals_table(fixtures_df_, odds_df_) ==
    IF fixtures_df_ = <<>> \/ odds_df_ = <<>> THEN EmptyFrame
    ELSE IF TeamsRaise(fixtures_df_) THEN RaisedFrame("TypeError")
    ELSE LET odds == SelectSeq(odds_df_, LAMBDA q : q.market_key = "totals")
         IN  IF odds = <<>> THEN EmptyFrame
             ELSE IF TeamsRaise(odds) THEN RaisedFrame("TypeError")
             ELSE LET merged == Merge(odds, fixtures_df_)
                  IN  IF merged = <<>> THEN EmptyFrame
                      ELSE IF Grouped(merged) = <<>> THEN EmptyFrame
                      ELSE SelectColumns(merged)

(***************************************************************************)
(* The normaliser on its own: one call on a name, then one call on the     *)
(* key that call returned.                                                 *)
(***************************************************************************)
\* How many pieces a generated name is put together from.
MaxPieces == 3

\* The pieces: every removed token (in lower, upper and mixed case), a space,
\* an underscore, ASCII punctuation, a letter, a digit, an accented letter
\* and a letter without decomposition.
Pieces ==
    { <<"f","c">>, <<"C","F">>, <<"a","c">>, <<"c","l","u","b">>, <<"T","h","e">>,
      <<" ">>, <<"_">>, <<".">>, <<"b">>, <<"1">>, <<"U+00E9">>, <<"U+00F8">> }

RECURSIVE TextsOf(_)
TextsOf(n) ==
    IF n = 0 THEN { <<>> }
    ELSE LET shorter == TextsOf(n - 1)
         IN  shorter \cup { t \o piece : t \in shorter, piece \in Pieces }

FC_Barcelona == <<"F","C"," ","B","a","r","c","e","l","o","n","a">>
Barcelona_CF == <<"B","a","r","c","e","l","o","n","a"," ","C","F">>
barcelona == <<"b","a","r","c","e","l","o","n","a">>

\* The names handed to the normaliser: the generated texts, the three
\* spellings of one club, None and NaN.
NameInputs ==
    { Str(t) : t \in TextsOf(MaxPieces) \cup {FC_Barcelona, Barcelona_CF, barcelona} }
        \cup {None, NaN}

\* The summaries, not in use.
SummariesOff ==
    /\ fixtures_df = <<>>
    /\ odds_df = <<>>
    /\ moneyline = EmptyFrame
    /\ totals = EmptyFrame
    /\ rpc = "off"

\* get_cl_odds_data, not in use.
OddsOff ==
    /\ memo = <<>>
    /\ fetches = <<>>
    /\ odds_result = [ended |-> "no", value |-> <<>>, error |-> <<>>]
    /\ calls = 0
    /\ opc = "off"

\* The normaliser, not in use.
NormaliserOff ==
    /\ name = None
    /\ key = Returned(<<>>)
    /\ rekey = Returned(<<>>)
    /\ npc = "off"

\* The render of the dashboard, not in use.
RenderOff ==
    /\ odds_cache = <<>>
    /\ last_success = <<>>
    /\ odds_call = <<>>
    /\ selected_fixture_df = <<>>
    /\ odds_raw_df = <<>>
    /\ odds_meta = <<>>
    /\ used_markets = <<>>
    /\ odds_table = <<>>
    /\ totals_table = <<>>
    /\ shown = <<>>
    /\ render_error = <<>>
    /\ renders = 0
    /\ debug_odds = FALSE
    /\ debug_events = {}
    /\ vpc = "off"

\* The selection of the upcoming matches, not in use.
SelectionOff ==
    /\ matches = <<>>
    /\ upcoming = <<>>
    /\ spc = "off"

\* The builders called twice, not in use.
TwiceOff ==
    /\ heap = <<>>
    /\ given = <<>>
    /\ builder = ""
    /\ first = <<>>
    /\ second = <<>>
    /\ tpc = "off"

\* The warehouse tables, not in use.
DatabaseOff ==
    /\ raw_matches = [exists |-> FALSE, columns |-> {}, rows |-> <<>>]
    /\ watermarks = <<>>

\* The calls of upsert_df, not in use.
UpsertOff ==
    /\ latest = <<>>
    /\ upsert_result = <<>>
    /\ again = FALSE
    /\ upserts = 0
    /\ upc = "off"

\* The runs of daily_etl, not in use.
EtlOff ==
    /\ clock = 0
    /\ since = 0
    /\ window = <<>>
    /\ etl_df = <<>>
    /\ tries = 0
    /\ failed = ""
    /\ now = 0
    /\ started = <<>>
    /\ etl_log = <<>>
    /\ etl_sum = <<>>
    /\ epc = "off"

\* The calls of the odds client, not in use.
GetOff ==
    /\ api_key = ""
    /\ entry = ""
    /\ attempts = 0
    /\ requests = 0
    /\ slept = <<>>
    /\ get_result = <<>>
    /\ gets = 0
    /\ resp = <<>>
    /\ gpc = "off"

\* The calls of _chunk_date_range, not in use.
ChunkOff ==
    /\ chunk_call = <<>>
    /\ cpc = "off"

\* The calls of the watermark setters, not in use.
WatermarkOff ==
    /\ wm_call = <<>>
    /\ wpc = "off"

\* The later sections, not in use.
ExtensionsOff == RenderOff /\ SelectionOff /\ TwiceOff /\ DatabaseOff /\ UpsertOff /\ EtlOff /\ GetOff /\ ChunkOff /\ WatermarkOff

NormInit ==
    /\ name \in NameInputs
    /\ key = Returned(<<>>)
    /\ rekey = Returned(<<>>)
    /\ npc = "idle"
    /\ SummariesOff
    /\ OddsOff
    /\ ExtensionsOff

\* key = _normalize_team_name(name)
NormalizeName ==
    /\ npc = "idle"
    /\ key' = _normalize_team_name(name)
    /\ npc' = "called"
    /\ UNCHANGED <<name, rekey, rvars, ovars, xvars>>

\* rekey = _normalize_team_name(key), for a call that returned
NormalizeAgain ==
    /\ npc = "called"
    /\ key.raised = ""
    /\ rekey' = _normalize_team_name(Str(key.key))
    /\ npc' = "again"
    /\ UNCHANGED <<name, key, rvars, ovars, xvars>>

NormNext == NormalizeName \/ NormalizeAgain

SpecNormalize == NormInit /\ [][NormNext]_vars

\* The words of a key: its maximal runs of characters other than the space.
RECURSIVE WordsFrom(_, _, _)
WordsFrom(text, p, word) ==
    IF p > Len(text) THEN (IF word = <<>> THEN {} ELSE {word})
    ELSE IF IsSpace(text[p])
         THEN (IF word = <<>> THEN {} ELSE {word}) \cup WordsFrom(text, p + 1, <<>>)
         ELSE WordsFrom(text, p + 1, Append(word, text[p]))

KeyWords(text) == WordsFrom(text, 1, <<>>)

\* Runs of [a-z0-9] separated by single spaces, no space at either end.
WellFormedKey(text) ==
    /\ \A i \in 1..Len(text) : IsKeyChar(text[i]) \/ text[i] = " "
    /\ text # <<>> => text[1] # " " /\ text[Len(text)] # " "
    /\ \A i \in 1..(Len(text) - 1) : ~(text[i] = " " /\ text[i + 1] = " ")

\* C2: "FC Barcelona", "Barcelona CF" and "barcelona" all normalise to the
\* key "barcelona", and None and "" both normalise to "".
C2_OneKeyForBarcelona ==
    npc \in {"called", "again"} =>
        /\ name \in {Str(FC_Barcelona), Str(Barcelona_CF), Str(barcelona)}
              => key = Returned(barcelona)
        /\ name \in {None, Str(<<>>)} => key = Returned(<<>>)

C2_Witness ==
    npc = "called" /\ name = Str(Barcelona_CF) /\ key = Returned(barcelona)

\* C3: the normaliser is total: for every name value of a frame (a string,
\* the empty string, None, or the missing-value marker NaN) the call returns
\* a key and raises nothing.
C3_NeverRaises == npc \in {"called", "again"} => key.raised = ""

\* C4: every returned key is runs of [a-z0-9] separated by single spaces,
\* none of its words is a removed token, and normalising the key again
\* returns the same key.
C4_KeyIsCanonical ==
    /\ npc \in {"called", "again"} /\ key.raised = "" =>
          WellFormedKey(key.key) /\ KeyWords(key.key) \cap REMOVED_TOKENS = {}
    /\ npc = "again" => rekey = key


(***************************************************************************)
(* The two summaries of one render: build_moneyline_summary and            *)
(* build_totals_table on a fixture frame and an odds frame.                *)
(***************************************************************************)
\* How many rows a generated odds frame has at most.
MaxQuotes == 3

\* A row of the fixture frame.
Fixture(home, away, matchday) ==
    [home_team |-> home, away_team |-> away, matchday |-> matchday]

\* The fixture FC Porto x Ajax of matchday 2.
PortoAjax == Fixture(Str(FC_Porto), Str(Ajax), 2)

\* The fixture frames: none, the fixture, a fixture whose teams are not yet
\* assigned (None), and one whose away team is missing (NaN).
FixtureFrames ==
    { <<>>, <<PortoAjax>>, <<Fixture(None, None, 3)>>, <<Fixture(Str(FC_Porto), NaN, 3)>> }

\* The three bookmakers: each quotes one price and was updated at one time.
BookmakerOf(price) ==
    CASE price = 180 -> Str(<<"b","1">>)
      [] price = 190 -> Str(<<"b","2">>)
      [] OTHER -> Str(<<"b","3">>)

UpdateOf(price) ==
    CASE price = 180 -> <<60>>
      [] price = 190 -> <<125>>
      [] OTHER -> <<130>>

\* The odds provider lists the event as Porto x Ajax ("exact"), as
\* Ajax x Porto ("swapped"), or without team names ("unnamed").
Quote(side, market, outcome, point, price) ==
    [ event_id |-> side,
      home_team |-> CASE side = "exact" -> Str(Porto)
                      [] side = "swapped" -> Str(Ajax)
                      [] OTHER -> None,
      away_team |-> CASE side = "exact" -> Str(Ajax)
                      [] side = "swapped" -> Str(Porto)
                      [] OTHER -> None,
      bookmaker_key |-> BookmakerOf(price),
      bookmaker_last_update |-> UpdateOf(price),
      market_key |-> market,
      outcome_name |-> Str(outcome),
      outcome_price |-> price,
      outcome_point |-> point ]

Sides == {"exact", "swapped"}

MoneylineQuotes ==
    { Quote(side, "h2h", outcome, <<>>, price) :
        side \in Sides, outcome \in {Porto, Ajax, Draw, Empate, PSV},
        price \in {180, 190, 200} }

TotalsQuotes ==
    { Quote(side, "totals", outcome, <<line>>, price) :
        side \in Sides, outcome \in {Over, Under}, line \in {25, 35},
        price \in {180, 200} }

\* A few quotes of each kind.
FewQuotes ==
    { Quote("exact", "h2h", Porto, <<>>, 180),
      Quote("swapped", "h2h", Draw, <<>>, 200),
      Quote("exact", "totals", Over, <<25>>, 180),
      Quote("swapped", "totals", Under, <<25>>, 200),
      Quote("unnamed", "h2h", Draw, <<>>, 190) }

RECURSIVE SetToSeq(_)
SetToSeq(S) ==
    IF S = {} THEN <<>>
    ELSE LET x == CHOOSE y \in S : TRUE IN <<x>> \o SetToSeq(S \ {x})

\* The quotes a frame of the fixture frame `fixtures` is put together from:
\* the moneyline quotes or the totals quotes (with the few others) for the
\* fixture Porto x Ajax, the few for every other fixture frame.
QuotePools(fixtures) ==
    IF fixtures = <<PortoAjax>>
    THEN { MoneylineQuotes \cup FewQuotes, TotalsQuotes \cup FewQuotes }
    ELSE { FewQuotes }

\* The place of each quote in one list of all of them.
QuoteRank ==
    LET list == SetToSeq(MoneylineQuotes \cup TotalsQuotes \cup FewQuotes)
    IN  [q \in Range(list) |-> CHOOSE i \in 1..Len(list) : list[i] = q]

SummariesInit ==
    /\ fixtures_df \in FixtureFrames
    /\ odds_df = <<>>
    /\ moneyline = EmptyFrame
    /\ totals = EmptyFrame
    /\ rpc = "idle"
    /\ NormaliserOff
    /\ OddsOff
    /\ ExtensionsOff

\* records.append(...): one more row of the odds frame.  Each multiset of at
\* most MaxQuotes quotes of a pool is built in one order, that of QuoteRank.
AppendQuote ==
    /\ rpc = "idle"
    /\ Len(odds_df) < MaxQuotes
    /\ \E pool \in QuotePools(fixtures_df) :
          /\ Range(odds_df) \subseteq pool
          /\ \E q \in pool :
                /\ odds_df # <<>> => QuoteRank[odds_df[Len(odds_df)]] <= QuoteRank[q]
                /\ odds_df' = Append(odds_df, q)
    /\ UNCHANGED <<fixtures_df, moneyline, totals, rpc, nvars, ovars, xvars>>

\* odds_table = build_moneyline_summary(selected_fixture_df, odds_raw_df)
BuildMoneyline ==
    /\ rpc = "idle"
    /\ moneyline' = build_moneyline_summary(fixtures_df, odds_df)
    /\ rpc' = "moneyline"
    /\ UNCHANGED <<fixtures_df, odds_df, totals, nvars, ovars, xvars>>

\* totals_table = build_totals_table(selected_fixture_df, odds_raw_df)
BuildTotals ==
    /\ rpc = "idle"
    /\ totals' = build_totals_table(fixtures_df, odds_df)
    /\ rpc' = "totals"
    /\ UNCHANGED <<fixtures_df, odds_df, moneyline, nvars, ovars, xvars>>

SummariesNext == AppendQuote \/ BuildMoneyline \/ BuildTotals

SpecSummaries == SummariesInit /\ [][SummariesNext]_vars

(***************************************************************************)
(* get_cl_odds_data: the fetch of both markets and its fallback to the     *)
(* moneyline alone, behind st.cache_data.  A fetch is a call of            *)
(* fetch_champions_league_odds; its outcome is a snapshot (the frame and   *)
(* the quota meta) or an exception.                                        *)
(***************************************************************************)
\* How many calls of get_cl_odds_data a run makes, and how many different
\* frames the provider can answer with.
MaxCalls == 3
MaxSnapshots == 3

\* requested_markets and fallback_markets
REQUESTED_MARKETS == <<"h2h", "totals">>
FALLBACK_MARKETS == <<"h2h">>

\* The status codes _get attaches to an OddsAPIHTTPError (<<>>: None).
HttpStatuses == { <<401>>, <<404>>, <<422>>, <<429>>, <<500>>, <<>> }

\* The exceptions a fetch can end with: OddsAPIHTTPError with its status
\* code, a plain OddsAPIError (no key, no connection, a payload that is no
\* list), and the JSON decoding error of resp.json().
Exception(class, status_code) == [class |-> class, status_code |-> status_code]

FetchErrors ==
    { Exception("OddsAPIHTTPError", st) : st \in HttpStatuses }
        \cup { Exception("OddsAPIError", <<>>), Exception("JSONDecodeError", <<>>) }

\* What a fetch that returns gives: df (one of the provider's frames) and meta
\* (requests_remaining, None when the header is absent).
FetchValues ==
    { [df |-> n, meta |-> m] : n \in 1..MaxSnapshots, m \in { <<>>, <<7>> } }

Fetched(value) == [returned |-> TRUE, value |-> <<value>>, error |-> <<>>]
FetchRaised(exc) == [returned |-> FALSE, value |-> <<>>, error |-> <<exc>>]

FetchOutcomes ==
    { Fetched(v) : v \in FetchValues } \cup { FetchRaised(e) : e \in FetchErrors }

\* "except OddsAPIHTTPError as exc" takes the exception.
IsOddsAPIHTTPError(exc) == exc.class = "OddsAPIHTTPError"

\* The fallback taken after every OddsAPIHTTPError.
TakesFallback_AnyStatus(exc, requested_markets) == IsOddsAPIHTTPError(exc)

\* Lines 122-123: the exception is caught and the fallback is taken.
TakesFallback(exc, requested_markets) ==
    /\ IsOddsAPIHTTPError(exc)
    /\ exc.status_code = <<422>>
    /\ Len(requested_markets) > 1

\* How a call ended.
CallReturned(df, meta, used_markets_) ==
    [ended |-> "returned",
     value |-> <<[df |-> df, meta |-> meta, used_markets |-> used_markets_]>>,
     error |-> <<>>]
CallRaised(exc) == [ended |-> "raised", value |-> <<>>, error |-> <<exc>>]

OddsInit ==
    /\ memo = <<>>
    /\ fetches = <<>>
    /\ odds_result = [ended |-> "no", value |-> <<>>, error |-> <<>>]
    /\ calls = 0
    /\ opc = "idle"
    /\ NormaliserOff
    /\ SummariesOff
    /\ ExtensionsOff

\* get_cl_odds_data() is called and st.cache_data holds a value: the value
\* is returned and the body does not run.
CallFromCache ==
    /\ opc \in {"idle", "returned", "raised"}
    /\ calls < MaxCalls
    /\ memo # <<>>
    /\ calls' = calls + 1
    /\ fetches' = <<>>
    /\ odds_result' = [ended |-> "returned", value |-> memo, error |-> <<>>]
    /\ opc' = "returned"
    /\ UNCHANGED <<memo, nvars, rvars, xvars>>

\* get_cl_odds_data() is called and st.cache_data holds nothing: the body runs.
CallBody ==
    /\ opc \in {"idle", "returned", "raised"}
    /\ calls < MaxCalls
    /\ memo = <<>>
    /\ calls' = calls + 1
    /\ fetches' = <<>>
    /\ odds_result' = [ended |-> "no", value |-> <<>>, error |-> <<>>]
    /\ opc' = "first"
    /\ UNCHANGED <<memo, nvars, rvars, xvars>>

\* Lines 120-121 and 122-128: the fetch of the requested markets.
FirstFetch ==
    /\ opc = "first"
    /\ \E outcome \in FetchOutcomes :
          /\ fetches' = Append(fetches, [markets |-> REQUESTED_MARKETS, outcome |-> outcome])
          /\ IF outcome.returned
             THEN /\ odds_result' = CallReturned(outcome.value[1].df, outcome.value[1].meta,
                                          REQUESTED_MARKETS)
                  /\ memo' = odds_result'.value
                  /\ opc' = "returned"
             ELSE IF TakesFallback(outcome.error[1], REQUESTED_MARKETS)
             THEN /\ opc' = "fallback"
                  /\ UNCHANGED <<odds_result, memo>>
             ELSE /\ odds_result' = CallRaised(outcome.error[1])
                  /\ opc' = "raised"
                  /\ UNCHANGED memo
    /\ UNCHANGED <<calls, nvars, rvars, xvars>>

\* Lines 124-126: the fetch of the moneyline alone; its exception is not caught.
FallbackFetch ==
    /\ opc = "fallback"
    /\ \E outcome \in FetchOutcomes :
          /\ fetches' = Append(fetches, [markets |-> FALLBACK_MARKETS, outcome |-> outcome])
          /\ IF outcome.returned
             THEN /\ odds_result' = CallReturned(outcome.value[1].df, outcome.value[1].meta,
                                          FALLBACK_MARKETS)
                  /\ memo' = odds_result'.value
                  /\ opc' = "returned"
             ELSE /\ odds_result' = CallRaised(outcome.error[1])
                  /\ opc' = "raised"
                  /\ UNCHANGED memo
    /\ UNCHANGED <<calls, nvars, rvars, xvars>>

\* ttl=600: the cached value expires.
CacheExpires ==
    /\ opc \in {"idle", "returned", "raised"}
    /\ memo # <<>>
    /\ memo' = <<>>
    /\ UNCHANGED <<fetches, odds_result, calls, opc, nvars, rvars, xvars>>

OddsNext == CallFromCache \/ CallBody \/ FirstFetch \/ FallbackFetch \/ CacheExpires

SpecOdds == OddsInit /\ [][OddsNext]_vars

\* The outcome of the i-th fetch of the call was the exception of status 422.
Raised422(i) ==
    /\ ~fetches[i].outcome.returned
    /\ fetches[i].outcome.error[1] = Exception("OddsAPIHTTPError", <<422>>)

\* C10: a call of the body first fetches ("h2h","totals"); it makes a second
\* fetch, of ("h2h",) only, exactly when the first raised OddsAPIHTTPError
\* with status 422, and never a third; it returns the result of its last
\* fetch with the markets of that fetch, or raises the exception of its
\* last fetch.
C10_OneFallbackOn422Only ==
    /\ Len(fetches) <= 2
    /\ Len(fetches) >= 1 => fetches[1].markets = <<"h2h", "totals">>
    /\ Len(fetches) = 2 => fetches[2].markets = <<"h2h">> /\ Raised422(1)
    /\ opc = "fallback" <=> (Len(fetches) = 1 /\ Raised422(1))
    /\ opc \in {"returned", "raised"} /\ fetches # <<>> =>
          LET last == fetches[Len(fetches)]
          IN  /\ Len(fetches) = 1 => ~Raised422(1)
              /\ last.outcome.returned =>
                    /\ odds_result.ended = "returned"
                    /\ odds_result.value[1].df = last.outcome.value[1].df
                    /\ odds_result.value[1].meta = last.outcome.value[1].meta
                    /\ odds_result.value[1].used_markets = last.markets
              /\ ~last.outcome.returned =>
                    odds_result.ended = "raised" /\ odds_result.error = last.outcome.error

\* The first fetch raised 422 and the call returned the fallback's frame.
C10_Witness ==
    /\ opc = "returned"
    /\ Len(fetches) = 2
    /\ Raised422(1)
    /\ odds_result.value[1].used_markets = <<"h2h">>
    /\ odds_result.value[1].df = fetches[2].outcome.value[1].df

(***************************************************************************)
(* What the claims about the summaries speak of.                           *)
(***************************************************************************)
\* Both team names of a row normalise.
Normalises(row) == ~NormRaises(row.home_team) /\ ~NormRaises(row.away_team)

\* The quote's normalised (home, away) is the fixture's, in the same order.
ExactOrder(quote, fixture) ==
    /\ Normalises(quote) /\ Normalises(fixture)
    /\ <<NormKey(quote.home_team), NormKey(quote.away_team)>>
         = <<NormKey(fixture.home_team), NormKey(fixture.away_team)>>

\* The quote's normalised (home, away) is the fixture's, reversed, and not
\* the fixture's own.
Reversed(quote, fixture) ==
    /\ Normalises(quote) /\ Normalises(fixture)
    /\ <<NormKey(quote.home_team), NormKey(quote.away_team)>>
         = <<NormKey(fixture.away_team), NormKey(fixture.home_team)>>
    /\ ~ExactOrder(quote, fixture)

\* The quotes of the odds frame that match a fixture of the frame in order.
InOrder == SelectSeq(odds_df, LAMBDA q : \E f \in Range(fixtures_df) : ExactOrder(q, f))

\* Those of one market: the quotes joined to the fixture.
Joined(market) == SelectSeq(InOrder, LAMBDA q : q.market_key = market)

Prices(quotes) == [i \in 1..Len(quotes) |-> quotes[i].outcome_price]

\* C1: only quotes whose normalised (home, away) equals the fixture's in the
\* same order contribute: a summary that is returned is the summary of the
\* odds frame without every other quote (reversed ones among them), and a
\* summary with a row has a joined quote of its market.
C1_OnlyExactOrderContributes ==
    /\ rpc = "moneyline" /\ moneyline.raised = "" =>
          /\ moneyline = build_moneyline_summary(fixtures_df, InOrder)
          /\ moneyline.rows # <<>> => Joined("h2h") # <<>>
    /\ rpc = "totals" /\ totals.raised = "" =>
          /\ totals = build_totals_table(fixtures_df, InOrder)
          /\ totals.rows # <<>> => Joined("totals") # <<>>

C1_Witness ==
    /\ rpc = "moneyline"
    /\ moneyline.rows # <<>>
    /\ \E i \in 1..Len(odds_df) :
          odds_df[i].market_key = "h2h" /\ Reversed(odds_df[i], fixtures_df[1])

\* The one fixture of the frame, and the key of a quote's outcome name.
TheFixture == fixtures_df[1]
OutcomeKey(quote) == NormKey(quote.outcome_name)

\* The joined moneyline quotes that name the home side, the away side, a draw.
HomeQuotes ==
    SelectSeq(Joined("h2h"), LAMBDA q : OutcomeKey(q) = NormKey(TheFixture.home_team))
AwayQuotes ==
    SelectSeq(Joined("h2h"), LAMBDA q : /\ OutcomeKey(q) = NormKey(TheFixture.away_team)
                                        /\ OutcomeKey(q) # NormKey(TheFixture.home_team))
DrawQuotes ==
    SelectSeq(Joined("h2h"),
              LAMBDA q : /\ OutcomeKey(q) \in { <<"d","r","a","w">>, <<"e","m","p","a","t","e">> }
                         /\ OutcomeKey(q) # NormKey(TheFixture.home_team)
                         /\ OutcomeKey(q) # NormKey(TheFixture.away_team))
OtherQuotes ==
    SelectSeq(Joined("h2h"),
              LAMBDA q : /\ OutcomeKey(q) \notin { <<"d","r","a","w">>, <<"e","m","p","a","t","e">> }
                         /\ OutcomeKey(q) # NormKey(TheFixture.home_team)
                         /\ OutcomeKey(q) # NormKey(TheFixture.away_team))

\* C5: for a fixture with joined moneyline quotes, Mandante is priced from
\* exactly the quotes whose outcome key is the home key, Visitante from those
\* whose key is the away key, Empate from those whose key is draw or empate;
\* the other quotes count in no price, and with none of the three kinds the
\* summary is empty.
C5_LabelsByOutcomeKey ==
    rpc = "moneyline" /\ Len(fixtures_df) = 1 /\ Joined("h2h") # <<>> =>
        /\ moneyline.raised = ""
        /\ moneyline.rows = <<>> <=> HomeQuotes \o AwayQuotes \o DrawQuotes = <<>>
        /\ moneyline.rows # <<>> =>
              /\ Len(moneyline.rows) = 1
              /\ moneyline.rows[1].Mandante = Median(Prices(HomeQuotes))
              /\ moneyline.rows[1].Visitante = Median(Prices(AwayQuotes))
              /\ moneyline.rows[1].Empate = Median(Prices(DrawQuotes))

C5_Witness ==
    /\ rpc = "moneyline"
    /\ HomeQuotes # <<>> /\ AwayQuotes # <<>> /\ OtherQuotes # <<>>
    /\ moneyline.rows # <<>>
    /\ moneyline.rows[1].Empate = <<>>

\* The quotes the summary retains, with their labels.
Retained ==
    SelectSeq(Merge(SelectSeq(odds_df, LAMBDA q : q.market_key = "h2h"), fixtures_df),
              LAMBDA r : OutcomeLabel(r) # "None")
RetainedPrices(label) ==
    Prices(SelectSeq(Retained, LAMBDA r : OutcomeLabel(r) = label))

\* x is the k-th smallest of the prices.
IsKth(x, k, prices) ==
    /\ Cardinality({ i \in 1..Len(prices) : prices[i] < x }) < k
    /\ k <= Cardinality({ i \in 1..Len(prices) : prices[i] <= x })

\* m is the median of the prices: the middle one, or the mean of the two
\* middle ones.
IsMedian(m, prices) ==
    \E a, b \in Range(prices) :
        /\ IsKth(a, (Len(prices) + 1) \div 2, prices)
        /\ IsKth(b, Len(prices) \div 2 + 1, prices)
        /\ 2 * m = a + b

PriceIsMedian(cell, prices) ==
    IF prices = <<>> THEN cell = <<>> ELSE cell # <<>> /\ IsMedian(cell[1], prices)

\* C6: each of the three prices of a moneyline summary is the median of the
\* prices of the retained quotes of its label, and empty for a label with
\* no retained quote.
C6_PriceIsMedianOfLabel ==
    rpc = "moneyline" /\ moneyline.rows # <<>> =>
        /\ PriceIsMedian(moneyline.rows[1].Mandante, RetainedPrices("Mandante"))
        /\ PriceIsMedian(moneyline.rows[1].Empate, RetainedPrices("Empate"))
        /\ PriceIsMedian(moneyline.rows[1].Visitante, RetainedPrices("Visitante"))

\* Home prices 1.80, 1.90, 2.00 of three bookmakers give 1.90.
C6_Witness ==
    /\ rpc = "moneyline"
    /\ SortedPrices(RetainedPrices("Mandante")) = <<180, 190, 200>>
    /\ moneyline.rows # <<>>
    /\ moneyline.rows[1].Mandante = <<190>>
    /\ moneyline.rows[1].Empate = <<>>

\* The goal lines of the joined totals quotes, and the joined prices of one
\* goal line and outcome name.
JoinedLines == { q.outcome_point[1] : q \in Range(Joined("totals")) }
LinePrices(line, outcome) ==
    Prices(SelectSeq(Joined("totals"),
                     LAMBDA q : q.outcome_point = <<line>> /\ q.outcome_name = Str(outcome)))

\* C7: for a fixture with joined totals quotes the table has exactly one row
\* for each goal line among them, in ascending order of goal line, and the
\* Over and Under of a row are the medians of the joined prices of that line
\* and outcome name (both present when the line has both kinds of quote).
C7_OneRowPerGoalLine ==
    rpc = "totals" /\ Len(fixtures_df) = 1 /\ Joined("totals") # <<>> =>
        /\ totals.raised = ""
        /\ { totals.rows[i].Linha : i \in 1..Len(totals.rows) } = JoinedLines
        /\ Len(totals.rows) = Cardinality(JoinedLines)
        /\ \A i \in 1..(Len(totals.rows) - 1) : totals.rows[i].Linha < totals.rows[i + 1].Linha
        /\ \A i \in 1..Len(totals.rows) :
              /\ totals.rows[i].Over = { Median(LinePrices(totals.rows[i].Linha, Over)) }
              /\ totals.rows[i].Under = { Median(LinePrices(totals.rows[i].Linha, Under)) }

\* A stage of the builder for one market is empty: no fixture, no quote, no
\* quote of the market, no quote of the market joined to a fixture, or (the
\* moneyline) no joined quote whose outcome maps to a label.
EmptyStage(market) ==
    \/ fixtures_df = <<>>
    \/ odds_df = <<>>
    \/ \A i \in 1..Len(odds_df) : odds_df[i].market_key # market
    \/ Joined(market) = <<>>
    \/ market = "h2h" /\ Len(fixtures_df) = 1 /\ HomeQuotes \o AwayQuotes \o DrawQuotes = <<>>

\* C8: whenever a stage is empty, the builder returns the empty frame and
\* raises nothing.
C8_EmptyStageGivesEmptyFrame ==
    /\ rpc = "moneyline" /\ EmptyStage("h2h") => moneyline = EmptyFrame
    /\ rpc = "totals" /\ EmptyStage("totals") => totals = EmptyFrame

\* C9: when the joined totals quotes carry only one of the outcome names
\* Over and Under, build_totals_table raises nothing.
C9_PartialTotalsDoesNotRaise ==
    rpc = "totals" /\ Joined("totals") # <<>>
        /\ (\/ \A q \in Range(Joined("totals")) : q.outcome_name = Str(Over)
            \/ \A q \in Range(Joined("totals")) : q.outcome_name = Str(Under))
        => totals.raised = ""

(***************************************************************************)
(* The odds part of one script run of the dashboard (a render), lines      *)
(* 659-746 of app/streamlit_app.py, for the fixture the user selected.     *)
(* st.session_state["odds_cache"] lives as long as the session; every      *)
(* other value is bound anew in each run.                                  *)
(***************************************************************************)
\* How many script runs a session has.
MaxRenders == 3

\* The rows the provider has for its n-th frame: no event; the moneyline;
\* the moneyline and both sides of a goal line; the moneyline and one side
\* of a goal line.
SnapshotRows(n) ==
    CASE n = 1 -> <<>>
      [] n = 2 -> << Quote("exact", "h2h", Porto, <<>>, 180),
                     Quote("exact", "h2h", Ajax, <<>>, 200) >>
      [] n = 3 -> << Quote("exact", "h2h", Porto, <<>>, 180),
                     Quote("exact", "totals", Over, <<25>>, 180),
                     Quote("exact", "totals", Under, <<25>>, 200) >>
      [] OTHER -> << Quote("exact", "h2h", Draw, <<>>, 190),
                     Quote("exact", "totals", Over, <<35>>, 180) >>

\* fetch_champions_league_odds(markets=...): the rows of the markets asked for.
SnapshotFrame(n, markets) ==
    SelectSeq(SnapshotRows(n), LAMBDA q : q.market_key \in Range(markets))

\* The frame of the provider, which may also have the event of the return
\* match, Ajax x FC Porto, with one h2h quote.
ProviderFrame(n, markets, return) ==
    SnapshotFrame(n, markets)
        \o (IF return THEN <<Quote("swapped", "h2h", Ajax, <<>>, 190)>> ELSE <<>>)

\* How get_cl_odds_data() can end: with the frame, meta and markets of its
\* last fetch, or with the exception of its last fetch.
CallOutcomes ==
    { CallReturned(ProviderFrame(v.df, m, return), v.meta, m) :
        v \in FetchValues, m \in {REQUESTED_MARKETS, FALLBACK_MARKETS}, return \in BOOLEAN }
        \cup { CallRaised(e) : e \in FetchErrors }

\* "except OddsAPIError as exc" takes the exception.
IsOddsAPIError(exc) == exc.class \in {"OddsAPIError", "OddsAPIHTTPError"}

\* selected_fixture_df = upcoming_df.iloc[[match_idx]]: one row.
SelectedFixtures == { f \in FixtureFrames : Len(f) = 1 }

\* The snapshot never used after a failed fetch.
UsesCache_Never(cache) == FALSE

\* Line 670: cache and isinstance(cache, dict) and "df" in cache
UsesCache(cache) == cache # <<>>

\* Lines 662-667: the value stored in st.session_state["odds_cache"].
CacheEntry(value, at) ==
    [df |-> value.df, meta |-> value.meta, markets |-> value.used_markets,
     captured_at |-> at]

\* The exception that ended the script run, and where.
RenderRaised(at, exc) == <<[at |-> at, exc |-> exc]>>

RenderInit ==
    /\ odds_cache = <<>>
    /\ last_success = <<>>
    /\ odds_call = <<>>
    /\ selected_fixture_df = <<>>
    /\ odds_raw_df = <<>>
    /\ odds_meta = <<>>
    /\ used_markets = <<>>
    /\ odds_table = <<>>
    /\ totals_table = <<>>
    /\ shown = <<>>
    /\ render_error = <<>>
    /\ renders = 0
    /\ debug_odds = FALSE
    /\ debug_events = {}
    /\ vpc = "idle"
    /\ NormaliserOff
    /\ SummariesOff
    /\ OddsOff
    /\ SelectionOff
    /\ TwiceOff
    /\ DatabaseOff
    /\ UpsertOff
    /\ EtlOff
    /\ GetOff
    /\ ChunkOff
    /\ WatermarkOff

\* Lines 659-686: a script run starts, the user has selected a fixture, and
\* get_cl_odds_data() is called.
RenderOdds ==
    /\ vpc \in {"idle", "done", "raised"}
    /\ renders < MaxRenders
    /\ renders' = renders + 1
    /\ odds_table' = <<>>
    /\ totals_table' = <<>>
    /\ debug_odds' \in BOOLEAN
    /\ debug_events' = {}
    /\ \E f \in SelectedFixtures, outcome \in CallOutcomes :
          /\ selected_fixture_df' = f
          /\ odds_call' = <<outcome>>
          /\ IF outcome.ended = "returned"
             THEN LET value == outcome.value[1]
                  IN  /\ odds_cache' = <<CacheEntry(value, renders + 1)>>
                      /\ last_success' = <<value>>
                      /\ odds_raw_df' = value.df
                      /\ odds_meta' = value.meta
                      /\ used_markets' = value.used_markets
                      /\ shown' = <<>>
                      /\ render_error' = <<>>
                      /\ vpc' = "moneyline"
             ELSE IF IsOddsAPIError(outcome.error[1])
             THEN /\ IF UsesCache(odds_cache)
                     THEN /\ odds_raw_df' = odds_cache[1].df
                          /\ odds_meta' = odds_cache[1].meta
                          /\ used_markets' = odds_cache[1].markets
                          /\ shown' = <<"warning: last valid cache in use">>
                     ELSE /\ odds_raw_df' = <<>>
                          /\ odds_meta' = <<>>
                          /\ used_markets' = <<>>
                          /\ shown' = <<"warning: no odds">>
                  /\ render_error' = <<>>
                  /\ vpc' = "moneyline"
                  /\ UNCHANGED <<odds_cache, last_success>>
             ELSE /\ odds_raw_df' = <<>>
                  /\ odds_meta' = <<>>
                  /\ used_markets' = <<>>
                  /\ shown' = <<>>
                  /\ render_error' = RenderRaised("odds", outcome.error[1].class)
                  /\ vpc' = "raised"
                  /\ UNCHANGED <<odds_cache, last_success>>
    /\ UNCHANGED exceptRender

\* _build_odds_overview(odds_raw_df) raises when an event has no name that
\* normalises (groupby "first" takes the first name that is not null).
OverviewRaises(odds) ==
    \E q \in Range(odds) :
        \/ \A r \in Range(odds) : r.event_id = q.event_id => NormRaises(r.home_team)
        \/ \A r \in Range(odds) : r.event_id = q.event_id => NormRaises(r.away_team)

\* _build_odds_overview: one row for each event_id, with the first name of
\* each side that is not null.
EventIds(odds) == { odds[i].event_id : i \in 1..Len(odds) }

FirstName(odds, event_id, column) ==
    LET names == SelectSeq(odds, LAMBDA q : q.event_id = event_id /\ q[column].t = "str")
    IN  IF names = <<>> THEN NaN ELSE names[1][column]

\* Lines 701-702: the events of the overview whose normalised pair is
\* (home, away).
EventsWithPair(odds, home, away) ==
    { e \in EventIds(odds) :
        /\ NormKey(FirstName(odds, e, "home_team")) = home
        /\ NormKey(FirstName(odds, e, "away_team")) = away }

\* Lines 697-719: what the debug block shows and the events it lists; it
\* is skipped when the box is not ticked or the overview is empty.
DebugMatching(debug, fixtures, odds) ==
    IF ~debug \/ odds = <<>> THEN [raised |-> "", shown |-> <<>>, events |-> {}]
    ELSE IF TeamsRaise(fixtures) THEN [raised |-> "TypeError", shown |-> <<>>, events |-> {}]
    ELSE LET fixture_home == NormKey(fixtures[1].home_team)
             fixture_away == NormKey(fixtures[1].away_team)
             exact == EventsWithPair(odds, fixture_home, fixture_away)
             swapped == EventsWithPair(odds, fixture_away, fixture_home)
         IN  IF exact = {} /\ swapped # {}
             THEN [raised |-> "", shown |-> <<"debug: swapped">>, events |-> swapped]
             ELSE IF exact = {}
             THEN [raised |-> "", shown |-> <<"debug: no coverage">>, events |-> {}]
             ELSE [raised |-> "", shown |-> <<"debug: exact">>, events |-> exact]

\* Lines 687-728: the overview, the moneyline summary and the debug block.
RenderMoneyline ==
    /\ vpc = "moneyline"
    /\ IF OverviewRaises(odds_raw_df)
       THEN /\ render_error' = RenderRaised("overview", "TypeError")
            /\ vpc' = "raised"
            /\ UNCHANGED <<odds_table, shown, debug_events>>
       ELSE LET table == build_moneyline_summary(selected_fixture_df, odds_raw_df)
                report == DebugMatching(debug_odds, selected_fixture_df, odds_raw_df)
                caption == IF debug_odds THEN <<"debug: rows, events, markets">> ELSE <<>>
            IN  IF table.raised # ""
                THEN /\ render_error' = RenderRaised("moneyline", table.raised)
                     /\ vpc' = "raised"
                     /\ shown' = shown \o caption
                     /\ UNCHANGED <<odds_table, debug_events>>
                ELSE IF report.raised # ""
                THEN /\ odds_table' = <<table>>
                     /\ render_error' = RenderRaised("debug", report.raised)
                     /\ vpc' = "raised"
                     /\ shown' = shown \o caption
                     /\ UNCHANGED debug_events
                ELSE /\ odds_table' = <<table>>
                     /\ debug_events' = report.events
                     /\ shown' = Append(shown \o caption \o report.shown,
                                        IF table.rows = <<>>
                                        THEN "info: no moneyline odds"
                                        ELSE "moneyline table")
                     /\ vpc' = "totals"
                     /\ UNCHANGED render_error
    /\ UNCHANGED <<odds_cache, last_success, odds_call, selected_fixture_df, odds_raw_df,
                   odds_meta, used_markets, totals_table, renders, debug_odds, exceptRender>>

\* Lines 742-746: the quota caption, when the meta has requests_remaining.
WithQuota(messages, meta) ==
    IF meta # <<>> THEN Append(messages, "quota") ELSE messages

\* Lines 730-746: the totals section and the quota caption.
RenderTotals ==
    /\ vpc = "totals"
    /\ IF ~("totals" \in Range(used_markets))
       THEN /\ shown' = WithQuota(Append(shown, "info: totals unavailable"), odds_meta)
            /\ vpc' = "done"
            /\ UNCHANGED <<totals_table, render_error>>
       ELSE LET table == build_totals_table(selected_fixture_df, odds_raw_df)
            IN  IF table.raised # ""
                THEN /\ render_error' = RenderRaised("totals", table.raised)
                     /\ vpc' = "raised"
                     /\ UNCHANGED <<totals_table, shown>>
                ELSE /\ totals_table' = <<table>>
                     /\ shown' = WithQuota(Append(shown, IF table.rows = <<>>
                                                         THEN "info: no totals lines"
                                                         ELSE "totals table"), odds_meta)
                     /\ vpc' = "done"
                     /\ UNCHANGED render_error
    /\ UNCHANGED <<odds_cache, last_success, odds_call, selected_fixture_df, odds_raw_df,
                   odds_meta, used_markets, odds_table, renders, debug_odds, debug_events,
                   exceptRender>>

RenderNext == RenderOdds \/ RenderMoneyline \/ RenderTotals

SpecRender == RenderInit /\ [][RenderNext]_vars

\* The odds section of the run bound used_markets (get_cl_odds_data()
\* returned, or raised an OddsAPIError that the section caught).
OddsSectionDone ==
    /\ vpc \in {"moneyline", "totals", "done", "raised"}
    /\ render_error = <<>> \/ render_error[1].at # "odds"

\* The run has ended, by reaching the end of the script or by an exception.
RenderEnded == vpc \in {"done", "raised"}

\* C11: a run whose markets in use do not include "totals" (after the 422
\* fallback, from a snapshot of such a call, or after a failed fetch with no
\* snapshot) ends without an exception, shows that the totals market is
\* unavailable and builds no totals table.
C11_NoTotalsMarketShowsUnavailable ==
    RenderEnded /\ OddsSectionDone /\ ~("totals" \in Range(used_markets)) =>
        /\ vpc = "done"
        /\ render_error = <<>>
        /\ \E i \in 1..Len(shown) : shown[i] = "info: totals unavailable"
        /\ totals_table = <<>>

\* get_cl_odds_data() raised an OddsAPIError in this run.
FetchFailed ==
    /\ odds_call # <<>>
    /\ odds_call[1].ended = "raised"
    /\ IsOddsAPIError(odds_call[1].error[1])

\* C12: the retained snapshot is that of the last call of the session that
\* returned, whatever failed since; a run whose call failed with an
\* OddsAPIError uses the frame, meta and markets of that last call, with a
\* warning, and an empty frame and no markets when no call has returned.
C12_FailedFetchUsesLastSuccess ==
    /\ odds_cache = <<>> <=> last_success = <<>>
    /\ odds_cache # <<>> =>
          /\ odds_cache[1].df = last_success[1].df
          /\ odds_cache[1].meta = last_success[1].meta
          /\ odds_cache[1].markets = last_success[1].used_markets
    /\ OddsSectionDone /\ FetchFailed =>
          IF last_success # <<>>
          THEN /\ odds_raw_df = last_success[1].df
               /\ odds_meta = last_success[1].meta
               /\ used_markets = last_success[1].used_markets
               /\ shown[1] = "warning: last valid cache in use"
          ELSE /\ odds_raw_df = <<>>
               /\ odds_meta = <<>>
               /\ used_markets = <<>>
               /\ shown[1] = "warning: no odds"

\* A run after two failed fetches in a row still shows the rows of the
\* call that returned before them.
C12_Witness ==
    /\ vpc = "done"
    /\ renders = 3
    /\ FetchFailed
    /\ last_success # <<>>
    /\ odds_raw_df # <<>>
    /\ odds_raw_df = odds_cache[1].df
    /\ odds_cache[1].captured_at = 1

(***************************************************************************)
(* get_upcoming_cl_matches: which of the scheduled matches the dashboard   *)
(* lists.  A row of df has the columns the function reads and returns;     *)
(* utcDate is in hours (<<>>: NaT, a date pd.to_datetime could not parse). *)
(* The body is modelled, as it runs when st.cache_data holds no value.     *)
(***************************************************************************)
\* How many rows the scheduled matches have, before any padding, and how
\* many when padding is added.
MaxMatches == 4
MaxPadded == 2

\* head(20)
HEAD_LIMIT == 20

\* Series.notna() of a name cell.
NotNa(value) == value.t = "str"

\* A row of df after json_normalize and rename.
Match(teams, matchday, utcDate) ==
    [ home_team |-> IF teams = "assigned" THEN Str(FC_Porto) ELSE None,
      home_team_id |-> IF teams = "assigned" THEN <<1>> ELSE <<>>,
      away_team |-> IF teams = "assigned" THEN Str(Ajax) ELSE NaN,
      away_team_id |-> IF teams = "assigned" THEN <<2>> ELSE <<>>,
      matchday |-> matchday,
      utcDate |-> utcDate,
      stage |-> "LEAGUE_STAGE" ]

\* The rows the scheduled matches are put together from.
MatchRows ==
    { Match(teams, matchday, utcDate) :
        teams \in {"assigned", "unassigned"},
        matchday \in { <<>>, <<2>>, <<3>> },
        utcDate \in { <<20>>, <<50>>, <<>> } }

\* HEAD_LIMIT - 1 more rows of one kind, all at one kickoff, none with a
\* matchday, told apart by their team ids.
Padding(teams) ==
    [ i \in 1..(HEAD_LIMIT - 1) |->
        [ Match(teams, <<>>, <<26>>) EXCEPT
            !.home_team_id = IF teams = "assigned" THEN <<100 + i>> ELSE <<>> ] ]

\* What requests.get and raise_for_status end with.
Responses == {"RequestException", "no matches", "matches"}

\* The two orders the sort may leave rows of one kickoff in.
TieOrders == {"kept", "reversed"}

\* sort_values("utcDate"): ascending, NaT last in the order they had; the
\* order of rows of one kickoff is that of `ties`.
Before(rows, i, j, ties) ==
    LET a == rows[i].utcDate
        b == rows[j].utcDate
    IN  IF a = <<>> THEN b = <<>> /\ i < j
        ELSE IF b = <<>> THEN TRUE
        ELSE \/ a[1] < b[1]
             \/ a[1] = b[1] /\ (IF ties = "kept" THEN i < j ELSE i > j)

SortByKickoff(rows, ties) ==
    LET n == Len(rows)
        place == [i \in 1..n |-> Cardinality({ j \in 1..n : Before(rows, j, i, ties) }) + 1]
    IN  [k \in 1..n |-> rows[CHOOSE i \in 1..n : place[i] = k]]

\* head(n)
HeadRows_OneFewer(rows, n) == SubSeq(rows, 1, IF Len(rows) < n - 1 THEN Len(rows) ELSE n - 1)

HeadRows(rows, n) == SubSeq(rows, 1, IF Len(rows) < n THEN Len(rows) ELSE n)

\* Line 69: df_valid
Valid(df) == SelectSeq(df, LAMBDA r : NotNa(r.home_team) /\ NotNa(r.away_team))

\* Line 73: valid_matchdays, as a set
ValidMatchdays(df) == { r.matchday[1] : r \in { v \in Range(Valid(df)) : v.matchday # <<>> } }

\* The first matchday taken instead of the least.
NextMatchday_First(df) ==
    LET with_matchday == SelectSeq(Valid(df), LAMBDA r : r.matchday # <<>>)
    IN  with_matchday[1].matchday[1]

\* Line 75: valid_matchdays.min()
NextMatchday(df) == CHOOSE m \in ValidMatchdays(df) : \A o \in ValidMatchdays(df) : m <= o

\* Lines 69-78: target
Target(df, ties) ==
    IF Valid(df) = <<>> THEN HeadRows(SortByKickoff(df, ties), HEAD_LIMIT)
    ELSE IF ValidMatchdays(df) # {}
    THEN SelectSeq(Valid(df), LAMBDA r : r.matchday = <<NextMatchday(df)>>)
    ELSE HeadRows(SortByKickoff(Valid(df), ties), HEAD_LIMIT)

\* Line 81: the kickoff in America/Sao_Paulo (UTC-3) as "%d/%m %H:%M"; the
\* day of the month and the hour are kept, the year is not.
KickoffLocal(utcDate) ==
    IF utcDate = <<>> THEN <<>>
    ELSE <<[day |-> (utcDate[1] - 3) \div 24, hour |-> (utcDate[1] - 3) % 24]>>

\* Lines 83-94: the columns returned.
UpcomingRow(r) ==
    [ matchday |-> r.matchday,
      kickoff_local |-> KickoffLocal(r.utcDate),
      utcDate |-> r.utcDate,
      home_team_id |-> r.home_team_id,
      home_team |-> r.home_team,
      away_team_id |-> r.away_team_id,
      away_team |-> r.away_team,
      stage |-> r.stage ]

\* get_upcoming_cl_matches(), for the response of the API and the orders
\* the two sorts leave ties in.
get_upcoming_cl_matches(response, df, ties1, ties2) ==
    IF response = "RequestException" THEN [warned |-> TRUE, rows |-> <<>>]
    ELSE IF response = "no matches" \/ df = <<>> THEN [warned |-> FALSE, rows |-> <<>>]
    ELSE LET target == SortByKickoff(Target(df, ties1), ties2)
         IN  [warned |-> FALSE, rows |-> [k \in 1..Len(target) |-> UpcomingRow(target[k])]]

SelectionInit ==
    /\ matches = <<>>
    /\ upcoming = <<>>
    /\ spc = "idle"
    /\ NormaliserOff
    /\ SummariesOff
    /\ OddsOff
    /\ RenderOff
    /\ TwiceOff
    /\ DatabaseOff
    /\ UpsertOff
    /\ EtlOff
    /\ GetOff
    /\ ChunkOff
    /\ WatermarkOff

\* The place of a row in the order the payloads are written in: rows
\* without teams first, then later matchdays before earlier ones, later
\* kickoffs before earlier ones.
MatchRank(r) ==
    (IF NotNa(r.home_team) THEN 100 ELSE 0)
        + (IF r.matchday = <<>> THEN 0 ELSE 10 * (4 - r.matchday[1]))
        + (IF r.utcDate = <<>> THEN 0 ELSE IF r.utcDate = <<50>> THEN 1 ELSE 2)

\* One more scheduled match in the payload.  Each multiset of at most
\* MaxMatches rows is written in one order, that of MatchRank.
AppendMatch ==
    /\ spc = "idle"
    /\ Len(matches) < MaxMatches
    /\ \E r \in MatchRows :
          /\ matches # <<>> => MatchRank(matches[Len(matches)]) <= MatchRank(r)
          /\ matches' = Append(matches, r)
    /\ UNCHANGED <<upcoming, spc, exceptSelection>>

\* HEAD_LIMIT - 1 more scheduled matches in the payload.
PadMatches ==
    /\ spc = "idle"
    /\ Len(matches) <= MaxPadded
    /\ \E teams \in {"assigned", "unassigned"} : matches' = matches \o Padding(teams)
    /\ spc' = "padded"
    /\ UNCHANGED <<upcoming, exceptSelection>>

\* upcoming_df = get_upcoming_cl_matches()
GetUpcoming ==
    /\ spc \in {"idle", "padded"}
    /\ \/ \E response \in Responses \ {"matches"} :
             upcoming' = <<[response |-> response,
                            result |-> get_upcoming_cl_matches(response, matches, "kept", "kept")]>>
       \/ \E ties1 \in TieOrders, ties2 \in TieOrders :
             upcoming' = <<[response |-> "matches",
                            result |-> get_upcoming_cl_matches("matches", matches, ties1, ties2)]>>
    /\ spc' = "done"
    /\ UNCHANGED <<matches, exceptSelection>>

SelectionNext == AppendMatch \/ PadMatches \/ GetUpcoming

SpecSelection == SelectionInit /\ [][SelectionNext]_vars

(***************************************************************************)
(* What the claims about the selection speak of.                           *)
(***************************************************************************)
\* get_upcoming_cl_matches() ran on a payload with matches.
Selected == spc = "done" /\ upcoming[1].response = "matches" /\ matches # <<>>

\* The rows returned.
UpcomingRows == upcoming[1].result.rows

\* Both teams of the match are assigned.
BothTeams(r) == r.home_team.t = "str" /\ r.away_team.t = "str"

\* What tells a match from another in the payload and in the result.
MatchKey(r) == <<r.matchday, r.utcDate, r.home_team_id, r.home_team, r.away_team>>

\* How many rows of `rows` are the match of key k.
CountOf(rows, k) == Cardinality({ i \in 1..Len(rows) : MatchKey(rows[i]) = k })

\* The rows are the same matches, each as often.
SameMatches(rows, others) ==
    /\ Len(rows) = Len(others)
    /\ \A i \in 1..Len(rows) : CountOf(rows, MatchKey(rows[i])) = CountOf(others, MatchKey(rows[i]))

\* Match a kicks off before match b (a match without kickoff after all).
Earlier(a, b) == a.utcDate # <<>> /\ (b.utcDate = <<>> \/ a.utcDate[1] < b.utcDate[1])

\* The rows are in the order of their kickoffs.
ByKickoff(rows) == \A i, j \in 1..Len(rows) : i < j => ~Earlier(rows[j], rows[i])

\* The matches with both teams and a matchday, and the least such matchday.
WithTeamsAndMatchday == SelectSeq(matches, LAMBDA r : BothTeams(r) /\ r.matchday # <<>>)
LeastMatchday ==
    CHOOSE m \in { r.matchday[1] : r \in Range(WithTeamsAndMatchday) } :
        \A r \in Range(WithTeamsAndMatchday) : m <= r.matchday[1]

\* C13: when a scheduled match has both teams and a matchday, the result is
\* exactly the matches with both teams whose matchday is the least matchday
\* among such matches, in the order of their kickoffs.
C13_NextMatchdayOnly ==
    Selected /\ WithTeamsAndMatchday # <<>> =>
        /\ SameMatches(UpcomingRows,
                       SelectSeq(matches, LAMBDA r : BothTeams(r) /\ r.matchday = <<LeastMatchday>>))
        /\ ByKickoff(UpcomingRows)

\* Matchdays [3, 2, 2, null], all with both teams, the two of matchday 2 at
\* kickoffs 50 and 20 in the payload: the result is those two, 20 before 50.
C13_Witness ==
    /\ Selected
    /\ Len(matches) = 4
    /\ \A i \in 1..4 : BothTeams(matches[i])
    /\ matches[1].matchday = <<>>
    /\ matches[2].matchday = <<3>>
    /\ matches[3].matchday = <<2>> /\ matches[3].utcDate = <<50>>
    /\ matches[4].matchday = <<2>> /\ matches[4].utcDate = <<20>>
    /\ Len(UpcomingRows) = 2
    /\ UpcomingRows[1].utcDate = <<20>> /\ UpcomingRows[1].matchday = <<2>>
    /\ UpcomingRows[2].utcDate = <<50>> /\ UpcomingRows[2].matchday = <<2>>

\* The matches the fallback chooses among: those with both teams when there
\* are any, all of them otherwise.
FallbackPool ==
    IF \E r \in Range(matches) : BothTeams(r)
    THEN SelectSeq(matches, LAMBDA r : BothTeams(r))
    ELSE matches

\* C14: when no match with both teams has a matchday, the result is the 20
\* earliest matches (all of them when there are at most 20) of those with
\* both teams, or of all matches when none has both teams, in the order of
\* their kickoffs.
C14_FallbackTwentyEarliest ==
    Selected /\ WithTeamsAndMatchday = <<>> =>
        /\ Len(UpcomingRows) = (IF Len(FallbackPool) < 20 THEN Len(FallbackPool) ELSE 20)
        /\ \A i \in 1..Len(UpcomingRows) :
              CountOf(UpcomingRows, MatchKey(UpcomingRows[i]))
                  <= CountOf(FallbackPool, MatchKey(UpcomingRows[i]))
        /\ \A p \in 1..Len(FallbackPool), i \in 1..Len(UpcomingRows) :
              Earlier(FallbackPool[p], UpcomingRows[i]) =>
                  CountOf(UpcomingRows, MatchKey(FallbackPool[p]))
                      = CountOf(FallbackPool, MatchKey(FallbackPool[p]))
        /\ ByKickoff(UpcomingRows)

\* 21 matches without teams, the earliest written last: 20 are returned,
\* the earliest first, and one of the others is left out.
C14_Witness ==
    /\ Selected
    /\ Len(matches) = 21
    /\ \A i \in 1..21 : ~BothTeams(matches[i])
    /\ matches[2].utcDate = <<20>>
    /\ Len(UpcomingRows) = 20
    /\ UpcomingRows[1].utcDate = <<20>>
    /\ UpcomingRows[20].utcDate = <<26>>

(***************************************************************************)
(* The summary builders on a fixture frame of two fixtures.                *)
(***************************************************************************)
\* The fixture Ajax x FC Porto of matchday 3: the quotes the provider lists
\* as Ajax x Porto are its quotes.
AjaxPorto == Fixture(Str(Ajax), Str(FC_Porto), 3)

\* The fixture frames of more than one fixture.
MultiFixtureFrames == { <<PortoAjax, AjaxPorto>>, <<AjaxPorto, PortoAjax>> }

MultiInit ==
    /\ fixtures_df \in MultiFixtureFrames
    /\ odds_df = <<>>
    /\ moneyline = EmptyFrame
    /\ totals = EmptyFrame
    /\ rpc = "idle"
    /\ NormaliserOff
    /\ OddsOff
    /\ ExtensionsOff

SpecMulti == MultiInit /\ [][SummariesNext]_vars

\* The summary of one fixture of the frame alone.
MoneylineOf(fixture) == build_moneyline_summary(<<fixture>>, odds_df)
TotalsOf(fixture) == build_totals_table(<<fixture>>, odds_df)

\* C15: for a frame of several fixtures that each have matching quotes, the
\* moneyline summary has one row per fixture and the totals table one row
\* per fixture and goal line, each row that of its fixture's quotes alone.
C15_OneRowPerFixture ==
    /\ ( /\ rpc = "moneyline"
         /\ Len(fixtures_df) > 1
         /\ \A f \in Range(fixtures_df) : MoneylineOf(f).raised = "" /\ MoneylineOf(f).rows # <<>> )
       => /\ moneyline.raised = ""
          /\ Len(moneyline.rows) = Len(fixtures_df)
          /\ Range(moneyline.rows) = { MoneylineOf(f).rows[1] : f \in Range(fixtures_df) }
    /\ ( /\ rpc = "totals"
         /\ Len(fixtures_df) > 1
         /\ \A f \in Range(fixtures_df) : TotalsOf(f).raised = "" /\ TotalsOf(f).rows # <<>> )
       => /\ totals.raised = ""
          /\ Range(totals.rows) = UNION { Range(TotalsOf(f).rows) : f \in Range(fixtures_df) }

\* The quotes of the fixture that are joined and mapped to a label.
KeptQuotes == HomeQuotes \o AwayQuotes \o DrawQuotes

\* The minute of a time in seconds.
MinuteOf(seconds) == seconds \div 60

\* C16: the bookmaker count of a moneyline row is the number of distinct
\* bookmaker keys among the joined and mapped quotes of the fixture, and its
\* update time is the latest last-update among those quotes (shown to the
\* minute); the other quotes count in neither.
C16_CountAndUpdateOfRetained ==
    rpc = "moneyline" /\ Len(fixtures_df) = 1 /\ moneyline.rows # <<>> =>
        /\ KeptQuotes # <<>>
        /\ moneyline.rows[1].Casas
              = Cardinality({ q.bookmaker_key : q \in Range(KeptQuotes) })
        /\ \E q \in Range(KeptQuotes) :
              /\ moneyline.rows[1].Atualizado = <<MinuteOf(q.bookmaker_last_update[1])>>
              /\ \A o \in Range(KeptQuotes) :
                    o.bookmaker_last_update[1] <= q.bookmaker_last_update[1]

\* Two kept quotes of one bookmaker, and a quote of a third outcome from
\* another bookmaker with a later update: one bookmaker, the earlier minute.
C16_Witness ==
    /\ rpc = "moneyline"
    /\ Len(fixtures_df) = 1
    /\ Len(KeptQuotes) = 2
    /\ OtherQuotes # <<>>
    /\ OtherQuotes[1].bookmaker_last_update[1] > KeptQuotes[1].bookmaker_last_update[1]
    /\ moneyline.rows # <<>>
    /\ moneyline.rows[1].Casas = 1
    /\ moneyline.rows[1].Atualizado = <<1>>

(***************************************************************************)
(* A summary builder called twice on the same two frames.  A frame is an   *)
(* object with columns and rows; the builders work on copies, and what     *)
(* they assign to a frame changes the object the name refers to.           *)
(***************************************************************************)
\* How many rows the odds frame of the two calls has.
MaxTwiceRows == 2

\* The columns of the frame get_upcoming_cl_matches returns (lines 83-94)
\* and of the frame fetch_champions_league_odds returns.
FixtureColumns ==
    {"matchday", "kickoff_local", "utcDate", "home_team_id", "home_team",
     "away_team_id", "away_team", "stage"}
OddsColumns ==
    {"event_id", "sport_key", "commence_time", "home_team", "away_team",
     "bookmaker_key", "bookmaker_title", "bookmaker_last_update", "market_key",
     "outcome_name", "outcome_price", "outcome_point", "outcome_description"}

FrameObject(columns, rows) == [columns |-> columns, rows |-> rows]

\* The copy that is the frame itself.
CopyFrame_SameObject(objects, ref) == [heap |-> objects, ref |-> ref]

\* frame.copy(): a new object with the columns and rows of the frame.
CopyFrame(objects, ref) == [heap |-> Append(objects, objects[ref]), ref |-> Len(objects) + 1]

\* odds[odds["market_key"] == market]: a new object with the rows selected.
SelectMarket(objects, ref, market) ==
    [heap |-> Append(objects,
                     FrameObject(objects[ref].columns,
                                 SelectSeq(objects[ref].rows, LAMBDA q : q.market_key = market))),
     ref |-> Len(objects) + 1]

\* frame[column] = ...: the object the name refers to gets the column.
SetColumn(objects, ref, column) ==
    [objects EXCEPT ![ref].columns = @ \cup {column}]

\* frame[norm] = frame[team].apply(_normalize_team_name), which assigns
\* nothing when the normaliser raises.
SetNormColumn(objects, ref, norm, team) ==
    IF \E i \in 1..Len(objects[ref].rows) : NormRaises(objects[ref].rows[i][team])
    THEN [raised |-> TRUE, heap |-> objects]
    ELSE [raised |-> FALSE, heap |-> SetColumn(objects, ref, norm)]

\* Lines 133-145 and 212-224: the objects after a call of a builder for the
\* market, objects[1] the fixture frame and objects[2] the odds frame passed
\* in.  What follows (subset, drop, merge, groupby) makes new frames only.
ObjectsAfterBuild(objects, market) ==
    IF objects[1].rows = <<>> \/ objects[2].rows = <<>> THEN objects
    ELSE LET fixtures == CopyFrame(objects, 1)
             home == SetNormColumn(fixtures.heap, fixtures.ref, "home_norm", "home_team")
             away == SetNormColumn(home.heap, fixtures.ref, "away_norm", "away_team")
         IN  IF home.raised THEN home.heap
             ELSE IF away.raised THEN away.heap
             ELSE LET copy == CopyFrame(away.heap, 2)
                      odds == SelectMarket(copy.heap, copy.ref, market)
                      ohome == SetNormColumn(odds.heap, odds.ref, "home_norm", "home_team")
                      oaway == SetNormColumn(ohome.heap, odds.ref, "away_norm", "away_team")
                  IN  IF odds.heap[odds.ref].rows = <<>> THEN odds.heap
                      ELSE IF ohome.raised THEN ohome.heap
                      ELSE oaway.heap

\* What the builder for the market gives on the two frames passed in.
BuilderResult(objects, market) ==
    IF market = "h2h"
    THEN build_moneyline_summary(objects[1].rows, objects[2].rows)
    ELSE build_totals_table(objects[1].rows, objects[2].rows)

\* The odds frames of the two calls.
RECURSIVE RowsOf(_)
RowsOf(n) ==
    IF n = 0 THEN { <<>> }
    ELSE RowsOf(n - 1) \cup { Append(rows, q) : rows \in RowsOf(n - 1), q \in FewQuotes }

TwiceInit ==
    /\ \E f \in FixtureFrames, o \in RowsOf(MaxTwiceRows) :
          heap = << FrameObject(FixtureColumns, f), FrameObject(OddsColumns, o) >>
    /\ given = heap
    /\ builder = ""
    /\ first = <<>>
    /\ second = <<>>
    /\ tpc = "idle"
    /\ NormaliserOff
    /\ SummariesOff
    /\ OddsOff
    /\ RenderOff
    /\ SelectionOff
    /\ DatabaseOff
    /\ UpsertOff
    /\ EtlOff
    /\ GetOff
    /\ ChunkOff
    /\ WatermarkOff

\* The first call of a builder; the frames it made are dropped on return.
CallOnce ==
    /\ tpc = "idle"
    /\ \E market \in {"h2h", "totals"} :
          /\ builder' = market
          /\ first' = <<BuilderResult(heap, market)>>
          /\ heap' = SubSeq(ObjectsAfterBuild(heap, market), 1, 2)
    /\ tpc' = "once"
    /\ UNCHANGED <<given, second, exceptTwice>>

\* The second call of the same builder on the same two frames.
CallTwice ==
    /\ tpc = "once"
    /\ second' = <<BuilderResult(heap, builder)>>
    /\ heap' = SubSeq(ObjectsAfterBuild(heap, builder), 1, 2)
    /\ tpc' = "twice"
    /\ UNCHANGED <<given, builder, first, exceptTwice>>

TwiceNext == CallOnce \/ CallTwice

SpecTwice == TwiceInit /\ [][TwiceNext]_vars

\* C17: a builder called twice on the same frames gives the same output
\* twice, and after each call the fixture frame and the odds frame are as
\* they were passed in: the same columns, the same rows in the same order.
C17_SameOutputInputsUntouched ==
    /\ tpc \in {"once", "twice"} => heap = given
    /\ tpc = "twice" => second = first

\* Two calls that each gave a summary with a row.
C17_Witness ==
    /\ tpc = "twice"
    /\ first[1].raised = ""
    /\ first[1].rows # <<>>
    /\ second = first
    /\ heap[1].columns = FixtureColumns

(***************************************************************************)
(* DuckDB.upsert_df (footballdata/io/duckdb_client.py): the MERGE of a     *)
(* batch into a table by key columns.  A table and a batch have a set of   *)
(* columns and rows, each row a function from the columns to values; NULL  *)
(* stands for SQL NULL.  The table has no key constraint: it is made by    *)
(* CREATE TABLE ... AS SELECT * FROM incoming LIMIT 0.                     *)
(***************************************************************************)
\* How many calls of upsert_df are made.
MaxUpserts == 3

NULL == "NULL"

\* A table that does not exist yet, the table of columns and rows, a batch.
NoTable == [exists |-> FALSE, columns |-> {}, rows |-> <<>>]
Table(columns, rows) == [exists |-> TRUE, columns |-> columns, rows |-> rows]
Batch(columns, rows) == [columns |-> columns, rows |-> rows]

\* A row of id and status, and one with a score as well.
MatchRow(id, status) == [c \in {"id", "status"} |-> IF c = "id" THEN id ELSE status]
ScoredRow(id, status, score) ==
    [c \in {"id", "status", "score"} |->
        CASE c = "id" -> id [] c = "status" -> status [] OTHER -> score]

\* The batches: pd.DataFrame(); one match; the match with another status;
\* two matches; the second match; one match twice in one batch; a match
\* with a column more.
Batches ==
    { Batch({}, <<>>),
      Batch({"id", "status"}, <<MatchRow("1", "SCHEDULED")>>),
      Batch({"id", "status"}, <<MatchRow("1", "FINISHED")>>),
      Batch({"id", "status"}, <<MatchRow("1", "SCHEDULED"), MatchRow("2", "SCHEDULED")>>),
      Batch({"id", "status"}, <<MatchRow("2", "FINISHED")>>),
      Batch({"id", "status"}, <<MatchRow("1", "SCHEDULED"), MatchRow("1", "FINISHED")>>),
      Batch({"id", "status", "score"}, <<ScoredRow("1", "FINISHED", "3")>>) }

\* What MERGE does with a table row that several batch rows match: DuckDB
\* documents none; it updates from the first, from the last, or fails.
MultipleMatch == {"first", "last", "error"}

\* The row with the columns `columns`, NULL where it had none.
Widened(row, columns) == [c \in columns |-> IF c \in DOMAIN row THEN row[c] ELSE NULL]

\* Line 52: CREATE TABLE IF NOT EXISTS table AS SELECT * FROM incoming LIMIT 0
CreateIfNotExists(table, df) ==
    IF table.exists THEN table ELSE Table(df.columns, <<>>)

\* _ensure_columns: ALTER TABLE ... ADD COLUMN for every column of the batch
\* the table lacks.
EnsureColumns(table, df) ==
    LET columns == table.columns \cup df.columns
    IN  Table(columns, [i \in 1..Len(table.rows) |-> Widened(table.rows[i], columns)])

\* The ON clause: t.key = s.key for every key column (never true of NULL).
OnClause(t, s, key_cols) ==
    \A c \in key_cols : t[c] # NULL /\ s[c] # NULL /\ t[c] = s[c]

\* The batch rows that match the table row.
MatchesOf(t, df, key_cols) == { j \in 1..Len(df.rows) : OnClause(t, df.rows[j], key_cols) }

\* An update that writes the whole row from the batch row.
Updated_Whole(t, s, key_cols) == Widened(s, DOMAIN t)

\* WHEN MATCHED THEN UPDATE SET c = s.c for the columns of the batch that
\* are no key columns.
Updated(t, s, key_cols) ==
    [c \in DOMAIN t |-> IF c \in DOMAIN s /\ c \notin key_cols THEN s[c] ELSE t[c]]

\* The smallest and the largest of a set of numbers.
Least(S) == CHOOSE x \in S : \A y \in S : x <= y
Greatest(S) == CHOOSE x \in S : \A y \in S : y <= x

\* Lines 61-69: the MERGE.
MergeInto(table, df, key_cols, multiple) ==
    LET updated ==
            [i \in 1..Len(table.rows) |->
                LET m == MatchesOf(table.rows[i], df, key_cols)
                IN  IF m = {} THEN table.rows[i]
                    ELSE Updated(table.rows[i],
                                 df.rows[IF multiple = "last" THEN Greatest(m) ELSE Least(m)],
                                 key_cols)]
        unmatched ==
            SelectSeq(df.rows,
                      LAMBDA s : \A i \in 1..Len(table.rows) : ~OnClause(table.rows[i], s, key_cols))
        inserted == [j \in 1..Len(unmatched) |-> Widened(unmatched[j], table.columns)]
    IN  Table(table.columns, updated \o inserted)

\* upsert_df(table, df, key_cols): how the call ends and the table after it.
upsert_df(table, df, key_cols, multiple) ==
    IF df.rows = <<>> \/ df.columns = {} THEN [raised |-> "", table |-> table]
    ELSE LET ready == EnsureColumns(CreateIfNotExists(table, df), df)
         IN  IF ~(key_cols \subseteq df.columns)
             THEN [raised |-> "BinderException", table |-> ready]
             ELSE IF df.columns \subseteq key_cols
             THEN [raised |-> "ParserException", table |-> ready]
             ELSE IF /\ multiple = "error"
                     /\ \E i \in 1..Len(ready.rows) :
                           Cardinality(MatchesOf(ready.rows[i], df, key_cols)) > 1
             THEN [raised |-> "InvalidInputException", table |-> ready]
             ELSE [raised |-> "", table |-> MergeInto(ready, df, key_cols, multiple)]

\* The key values of the batches.
Ids == {"1", "2"}

UpsertInit ==
    /\ raw_matches = NoTable
    /\ watermarks = <<>>
    /\ latest = [k \in Ids |-> {}]
    /\ upsert_result = <<>>
    /\ again = FALSE
    /\ upserts = 0
    /\ upc = "idle"
    /\ NormaliserOff
    /\ SummariesOff
    /\ OddsOff
    /\ RenderOff
    /\ SelectionOff
    /\ TwiceOff
    /\ EtlOff
    /\ GetOff
    /\ ChunkOff
    /\ WatermarkOff

\* DuckDB().upsert_df("raw.matches", df, key_cols=["id"])
UpsertCalled(df, multiple) ==
    LET result == upsert_df(raw_matches, df, {"id"}, multiple)
    IN  /\ raw_matches' = result.table
        /\ upsert_result' = <<[df |-> df, raised |-> result.raised, before |-> raw_matches]>>
        /\ latest' = IF result.raised # "" THEN latest
                     ELSE [k \in Ids |->
                             LET rows == { r \in Range(df.rows) : r["id"] = k }
                             IN  IF rows = {} THEN latest[k] ELSE rows]
        /\ upserts' = upserts + 1

\* A call of upsert_df with a batch.
Upsert ==
    /\ upc = "idle"
    /\ upserts < MaxUpserts
    /\ \E df \in Batches, multiple \in MultipleMatch : UpsertCalled(df, multiple)
    /\ again' = FALSE
    /\ UNCHANGED <<watermarks, upc, exceptUpsert>>

\* A call of upsert_df with the batch of the call before, which returned.
UpsertAgain ==
    /\ upc = "idle"
    /\ upserts < MaxUpserts
    /\ upsert_result # <<>>
    /\ upsert_result[1].raised = ""
    /\ \E multiple \in MultipleMatch : UpsertCalled(upsert_result[1].df, multiple)
    /\ again' = TRUE
    /\ UNCHANGED <<watermarks, upc, exceptUpsert>>

UpsertNext == Upsert \/ UpsertAgain

SpecUpsert == UpsertInit /\ [][UpsertNext]_vars

\* The rows of the table with the key value k.
RowsOfKey(k) == SelectSeq(raw_matches.rows, LAMBDA t : t["id"] = k)

\* The row carries the values of the batch row, column by column.
Carries(t, s) == \A c \in DOMAIN s : c \in DOMAIN t /\ t[c] = s[c]

\* C19: after any calls of upsert_df with key column id, the table has
\* exactly one row for every key value that a batch had, which carries the
\* values of the last batch with that key, and no other row; a call that
\* repeats the batch of the call before leaves the table as it was.
C19_OneRowPerKeyLastBatchWins ==
    /\ \A k \in Ids :
          IF latest[k] = {} THEN RowsOfKey(k) = <<>>
          ELSE /\ Len(RowsOfKey(k)) = 1
               /\ \E s \in latest[k] : Carries(RowsOfKey(k)[1], s)
    /\ again /\ upsert_result[1].raised = "" => raw_matches = upsert_result[1].before


(***************************************************************************)
(* The daily_etl flow and the watermarks                                   *)
(*                                                                         *)
(* meta.ingestion_watermarks_v2 has the primary key (source, entity, key): *)
(* watermarks maps a key to <<>> (no row) or to <<row>>, the row holding   *)
(* last_success_at and high_watermark, each NullTime (NULL) or <<time>>.   *)
(* The flow runs its tasks one after the other; a task that raises ends    *)
(* the run.                                                                *)
(***************************************************************************)
\* How far the clock goes, and how many runs of the flow are made.
MaxClock == 4
MaxRuns == 3

\* datetime(1970, 1, 1), the default of get_high_watermark.
EPOCH == 0

\* @task(retries=3, ...) of extract_matches_task.
EXTRACT_RETRIES == 3

SOURCE == "football-data"
ENTITY == "matches"
ENTITY_KEY == "competition=ALL;season=ALL"

\* The key of daily_etl, and the key of get_watermark and set_watermark.
DailyKey == <<SOURCE, ENTITY, ENTITY_KEY>>
WatermarkKeys == {DailyKey, <<"default", ENTITY, "global">>}

\* Python None, SQL NULL of a timestamp column.
NullTime == <<>>

\* _get_value(source, entity, key, column)
_get_value(wm, k, column) ==
    IF wm[k] # <<>> /\ wm[k][1][column] # NullTime THEN wm[k][1][column] ELSE NullTime

\* get_high_watermark(source, entity, key)
get_high_watermark(wm, k) ==
    LET value == _get_value(wm, k, "high_watermark")
    IN  IF value # NullTime THEN value[1] ELSE EPOCH

\* SET column = excluded.column
Coalesce_Excluded(excluded, t) == excluded

\* COALESCE(excluded.column, t.column)
Coalesce(excluded, t) == IF excluded # NullTime THEN excluded ELSE t

\* set_watermarks(source, entity, key, last_success_at, high_watermark):
\* INSERT ... ON CONFLICT (source, entity, key) DO UPDATE.
set_watermarks(wm, k, last_success_at, high_watermark) ==
    [wm EXCEPT ![k] =
        IF wm[k] = <<>>
        THEN <<[last_success_at |-> last_success_at, high_watermark |-> high_watermark]>>
        ELSE <<[last_success_at |-> Coalesce(last_success_at, wm[k][1].last_success_at),
                high_watermark |-> Coalesce(high_watermark, wm[k][1].high_watermark)]>>]

set_last_success_at(wm, k, value) == set_watermarks(wm, k, value, NullTime)

set_high_watermark(wm, k, value) == set_watermarks(wm, k, NullTime, value)

\* footballdata.utils.dates.utc_now(): the time of the call.
utc_now == clock

\* The ticks of a day: a datetime is a number of ticks after 1970-01-01
\* 00:00, and timedelta(days=1) is DayLength ticks.  With one tick a day the
\* clock tells the day, and the times of one day are one time.
DayLength == 1

\* datetime.date(): the day of a time, as the number of days after
\* 1970-01-01.
date(t) == t \div DayLength

\* Line 42 of fetch_matches_since: start_date = since.date()
start_date(since_) == date(since_)

\* Line 43, until not given:
\* end_date = (datetime.utcnow() + timedelta(days=1)).date()
end_date(utcnow) == date(utcnow + DayLength)

\* ensure_dtypes_matches(df) returns df.
ensure_dtypes_matches(df) == df

\* What fetch_matches_since gives the flow: an empty frame, a frame of
\* matches, or an exception (raise_for_status, a network failure).
ExtractFrames ==
    { Batch({}, <<>>),
      Batch({"id", "status"}, <<MatchRow("1", "SCHEDULED")>>) }

\* A flow that went on after a task raised.
Proceeds_Always(raised) == TRUE

\* The flow calls the next task only when the task before returned: the
\* exception of a task leaves daily_etl.
Proceeds(raised) == raised = ""

EtlInit ==
    /\ raw_matches = NoTable
    /\ watermarks = [k \in WatermarkKeys |-> <<>>]
    /\ clock = 1
    /\ since = EPOCH
    /\ window = <<>>
    /\ etl_df = <<>>
    /\ tries = 0
    /\ failed = ""
    /\ now = 0
    /\ started = <<>>
    /\ etl_log = <<>>
    /\ etl_sum = [runs |-> 0, ok |-> <<>>, first |-> <<>>, covered |-> {}]
    /\ epc = "idle"
    /\ NormaliserOff
    /\ SummariesOff
    /\ OddsOff
    /\ RenderOff
    /\ SelectionOff
    /\ TwiceOff
    /\ UpsertOff
    /\ GetOff
    /\ ChunkOff
    /\ WatermarkOff

\* Time passes.  The flow reads the clock in the extract task and at line 59
\* only, so the time that passes anywhere in a run, or between two runs, is
\* time that has passed when one of the two is about to run.
Tick ==
    /\ epc \in {"extract", "set_last_success_at"}
    /\ clock < MaxClock
    /\ clock' = clock + 1
    /\ UNCHANGED <<since, window, etl_df, tries, failed, now, started, etl_log, etl_sum,
                   epc, dbvars, exceptEtl>>

\* The last two entries of a log.
LastTwo(log) == IF Len(log) > 2 THEN Tail(log) ELSE log

\* The dates a run requested: fetch_matches_since requests every chunk of
\* _chunk_date_range(start_date, end_date) before it returns.
Requested(r) == r.window[1]..r.window[2]

\* The run that ended, added to what is kept of the runs so far.
Summed(sum, r) ==
    IF r.outcome = "ok"
    THEN [runs |-> sum.runs + 1,
          ok |-> LastTwo(Append(sum.ok, r)),
          first |-> IF sum.first = <<>> THEN <<r.window[1]>> ELSE sum.first,
          covered |-> sum.covered \cup Requested(r)]
    ELSE [sum EXCEPT !.runs = @ + 1]

\* A task ended, raising or not: the flow goes on with the next task, or the
\* run is over and is written down.
TaskEnded(task, raised, next, wm) ==
    LET outcome == IF raised # "" /\ failed = "" THEN task ELSE failed
        run == [since |-> since,
                window |-> window,
                outcome |-> IF outcome = "" THEN "ok" ELSE outcome,
                ended |-> now,
                before |-> started,
                after |-> wm[DailyKey]]
    IN  /\ failed' = outcome
        /\ IF Proceeds(raised) /\ next # "idle"
           THEN /\ epc' = next
                /\ UNCHANGED <<etl_log, etl_sum>>
           ELSE /\ epc' = "idle"
                /\ etl_log' = LastTwo(Append(etl_log, run))
                /\ etl_sum' = Summed(etl_sum, run)

\* Lines 54-55: init_schemas(); since = get_high_watermark(...)
EtlStart ==
    /\ epc = "idle"
    /\ etl_sum.runs < MaxRuns
    /\ since' = get_high_watermark(watermarks, DailyKey)
    /\ started' = watermarks[DailyKey]
    /\ window' = <<>>
    /\ etl_df' = <<>>
    /\ tries' = 0
    /\ failed' = ""
    /\ epc' = "extract"
    /\ now' = 0
    /\ UNCHANGED <<clock, etl_log, etl_sum, dbvars, exceptEtl>>

\* Line 56: df = extract_matches_task(since), run again after an exception
\* up to EXTRACT_RETRIES times.
EtlExtract ==
    /\ epc = "extract"
    /\ tries' = tries + 1
    /\ \/ \E df \in ExtractFrames :
            /\ etl_df' = <<df>>
            /\ window' = <<start_date(since), end_date(clock)>>
            /\ TaskEnded("extract", "", "load", watermarks)
       \/ /\ tries < EXTRACT_RETRIES
          /\ UNCHANGED <<window, etl_df, failed, etl_log, etl_sum, epc>>
       \/ /\ tries >= EXTRACT_RETRIES
          /\ etl_df' = <<>>
          /\ window' = <<>>
          /\ TaskEnded("extract", "HTTPError", "load", watermarks)
    /\ UNCHANGED <<clock, since, now, started, dbvars, exceptEtl>>

\* Line 57: load_raw_task(df), which raises what upsert_df raises, or
\* before it (the database file cannot be opened).
EtlLoad ==
    /\ epc = "load"
    /\ IF etl_df = <<>>
       THEN /\ raw_matches' = raw_matches
            /\ TaskEnded("load", "", "transform", watermarks)
       ELSE \/ \E multiple \in MultipleMatch :
                  LET result == upsert_df(raw_matches, ensure_dtypes_matches(etl_df[1]),
                                          {"id"}, multiple)
                  IN  /\ raw_matches' = result.table
                      /\ TaskEnded("load", result.raised, "transform", watermarks)
            \/ /\ raw_matches' = raw_matches
               /\ TaskEnded("load", "Error", "transform", watermarks)
    /\ UNCHANGED <<clock, since, window, etl_df, tries, now, started, watermarks, exceptEtl>>

\* Line 58: transform_sql_task(), which returns when raw.matches does not
\* exist and runs the two SQL files otherwise.
EtlTransform ==
    /\ epc = "transform"
    /\ \E raised \in {"", "Error"} :
          /\ raised # "" => raw_matches.exists
          /\ TaskEnded("transform", raised, "set_last_success_at", watermarks)
    /\ UNCHANGED <<clock, since, window, etl_df, tries, now, started, dbvars, exceptEtl>>

\* What a call of a setter does to the table: the statement of
\* set_watermarks runs, or the call raises before it has written (the
\* database file cannot be opened, the statement fails).
SetterOutcomes(wm) == {[raised |-> "", table |-> wm], [raised |-> "Error", table |-> watermarks]}

\* Lines 59-60: now = utc_now(); set_last_success_at(..., now)
EtlSetLastSuccess ==
    /\ epc = "set_last_success_at"
    /\ now' = utc_now
    /\ \E call \in SetterOutcomes(set_last_success_at(watermarks, DailyKey, <<utc_now>>)) :
          /\ watermarks' = call.table
          /\ TaskEnded("set_last_success_at", call.raised, "set_high_watermark", call.table)
    /\ UNCHANGED <<clock, since, window, etl_df, tries, started, raw_matches, exceptEtl>>

\* Line 61: set_high_watermark(..., now), the end of the run.
EtlSetHighWatermark ==
    /\ epc = "set_high_watermark"
    /\ \E call \in SetterOutcomes(set_high_watermark(watermarks, DailyKey, <<now>>)) :
          /\ watermarks' = call.table
          /\ TaskEnded("set_high_watermark", call.raised, "idle", call.table)
    /\ UNCHANGED <<clock, since, window, etl_df, tries, now, started, raw_matches, exceptEtl>>

EtlNext ==
    \/ Tick
    \/ EtlStart
    \/ EtlExtract
    \/ EtlLoad
    \/ EtlTransform
    \/ EtlSetLastSuccess
    \/ EtlSetHighWatermark

SpecEtl == EtlInit /\ [][EtlNext]_vars

\* The tasks before the watermark is written.
BeforeWatermark == {"extract", "load", "transform"}

\* C18: the watermark row of daily_etl's key changes only in a run whose
\* extract, load and transform tasks all returned: while one of them is still
\* to end the row is the one the run started with, a run that ended in one
\* of them left the row as it found it, and the run after it reads the same
\* since.
C18_FailedRunKeepsWatermark ==
    /\ epc \in BeforeWatermark => watermarks[DailyKey] = started
    /\ \A i \in 1..Len(etl_log) :
          /\ etl_log[i].after # etl_log[i].before => etl_log[i].outcome \notin BeforeWatermark
          /\ etl_log[i].outcome \in BeforeWatermark =>
                /\ etl_log[i].after = etl_log[i].before
                /\ i < Len(etl_log) => etl_log[i + 1].since = etl_log[i].since
                /\ i = Len(etl_log) /\ epc # "idle" => since = etl_log[i].since

\* A run that wrote a watermark, a run after it that failed before the
\* watermark, and a third run that started from the same since.
C18_Witness ==
    \E i \in 1..Len(etl_log) :
        /\ etl_log[i].outcome \in BeforeWatermark
        /\ etl_log[i].before # <<>>
        /\ etl_log[i].since # EPOCH
        /\ i < Len(etl_log)
        /\ etl_log[i + 1].outcome = "ok"


(***************************************************************************)
(* The odds client: _get and fetch_champions_league_odds                   *)
(*                                                                         *)
(* A call checks the key and then requests until a response ends it.  A    *)
(* payload is the list of its events, each event given as the number of    *)
(* outcomes it carries.                                                    *)
(***************************************************************************)
\* How many calls of the client are made.
MaxGets == 2

MAX_RETRIES == 3
RETRY_DELAY_SECONDS == 2

\* settings.ODDS_API_KEY: the default "" or a key from the environment.
ApiKeys == {"", "k"}

\* The statuses after which _get requests again, and the other error
\* statuses of the API.
RetryStatuses == {429, 500, 502, 503, 504}
OtherStatuses == {401, 404, 422}

Payloads == {<<>>, <<2>>, <<1, 2>>}

\* _error_detail(response): the message of the server, "" when its body is
\* empty.
Details == {"", "quota exceeded"}

\* What requests.get, raise_for_status and resp.json() end with: a JSON
\* list, a JSON object, a body that is no JSON, an error status with the
\* detail of the server, or a RequestException that is no HTTPError (no
\* connection, a timeout).
GetResponses ==
    [kind : {"list"}, payload : Payloads, status : {200}, detail : {""}]
        \cup [kind : {"dict", "text"}, payload : {<<>>}, status : {200}, detail : {""}]
        \cup [kind : {"status"}, payload : {<<>>},
               status : RetryStatuses \cup OtherStatuses, detail : Details]
        \cup [kind : {"exception"}, payload : {<<>>}, status : {0}, detail : {""}]

GetReturned(value) ==
    [raised |-> "", status_code |-> 0, message |-> "", detail |-> "", value |-> value]

\* An exception: its class, its status_code (0 for none), the fixed text of
\* its message and the detail put into the message.
GetRaised(exc, status_code, message, detail) ==
    [raised |-> exc, status_code |-> status_code, message |-> message,
     detail |-> detail, value |-> <<>>]

\* A client that does not look at the key.
KeyMissing_Never(k) == FALSE

\* Line 53: not settings.ODDS_API_KEY
KeyMissing(k) == k = ""

\* Lines 71-106: what one pass of the loop does with the response of its
\* request, attempts being the count after attempts += 1.
Pass(response, n) ==
    CASE response.kind = "status" ->
           IF response.status \in RetryStatuses /\ n <= MAX_RETRIES
           THEN [again |-> TRUE, sleep |-> RETRY_DELAY_SECONDS * n, result |-> <<>>]
           ELSE [again |-> FALSE, sleep |-> 0,
                 result |->
                    IF response.status = 404
                    THEN GetRaised("OddsAPIHTTPError", response.status,
                                   "Esporte nao encontrado (404)", "")
                    ELSE IF response.status = 422
                    THEN GetRaised("OddsAPIHTTPError", response.status,
                                   "Parametros invalidos (422)", response.detail)
                    ELSE GetRaised("OddsAPIHTTPError", response.status,
                                   "Falha ao consultar a Odds API",
                                   IF response.detail # "" THEN response.detail
                                   ELSE "HTTPError")]
      [] response.kind = "exception" ->
           IF n <= MAX_RETRIES
           THEN [again |-> TRUE, sleep |-> RETRY_DELAY_SECONDS * n, result |-> <<>>]
           ELSE [again |-> FALSE, sleep |-> 0,
                 result |-> GetRaised("OddsAPIError", 0, "Falha ao consultar a Odds API", "RequestException")]
      [] response.kind = "text" ->
           [again |-> FALSE, sleep |-> 0,
            result |-> GetRaised("JSONDecodeError", 0, "", "")]
      [] response.kind = "dict" ->
           [again |-> FALSE, sleep |-> 0,
            result |-> GetRaised("OddsAPIError", 0, "Resposta inesperada da Odds API", "")]
      [] OTHER ->
           [again |-> FALSE, sleep |-> 0, result |-> GetReturned(response.payload)]

\* Lines 135-162: one record for each outcome of each event, here the number
\* of its event.
RECURSIVE Records(_)
Records(payload) ==
    IF payload = <<>> THEN <<>>
    ELSE Records(SubSeq(payload, 1, Len(payload) - 1))
            \o [j \in 1..payload[Len(payload)] |-> Len(payload)]

\* What the function called gives its caller: _get its result,
\* fetch_champions_league_odds the records of the payload or the exception
\* of _get.
Given(called, result) ==
    IF called = "fetch_champions_league_odds" /\ result.raised = ""
    THEN GetReturned(Records(result.value))
    ELSE result

GetInit ==
    /\ api_key \in ApiKeys
    /\ entry = ""
    /\ attempts = 0
    /\ requests = 0
    /\ slept = <<>>
    /\ get_result = <<>>
    /\ gets = 0
    /\ resp = <<>>
    /\ gpc = "idle"
    /\ NormaliserOff
    /\ SummariesOff
    /\ OddsOff
    /\ RenderOff
    /\ SelectionOff
    /\ TwiceOff
    /\ DatabaseOff
    /\ UpsertOff
    /\ EtlOff
    /\ ChunkOff
    /\ WatermarkOff

\* Lines 52-69 (and 125-133 of fetch_champions_league_odds): the call, up
\* to the loop.
GetCall ==
    /\ gpc \in {"idle", "done"}
    /\ gets < MaxGets
    /\ gets' = gets + 1
    /\ \E called \in {"_get", "fetch_champions_league_odds"} : entry' = called
    /\ attempts' = 0
    /\ slept' = <<>>
    /\ resp' = <<>>
    /\ IF KeyMissing(api_key)
       THEN /\ get_result' = <<GetRaised("OddsAPIError", 0, "ODDS_API_KEY nao configurada", "")>>
            /\ gpc' = "done"
       ELSE /\ get_result' = <<>>
            /\ gpc' = "request"
    /\ UNCHANGED <<api_key, requests, exceptGet>>

\* Lines 71-106: one pass of the loop, with its request.
GetRequest ==
    /\ gpc = "request"
    /\ attempts' = attempts + 1
    /\ requests' = requests + 1
    /\ \E response \in GetResponses :
          LET pass == Pass(response, attempts + 1)
          IN  /\ resp' = <<response>>
              /\ IF pass.again
                 THEN /\ slept' = Append(slept, pass.sleep)
                      /\ UNCHANGED <<get_result, gpc>>
                 ELSE /\ get_result' = <<Given(entry, pass.result)>>
                      /\ gpc' = "done"
                      /\ slept' = slept
    /\ UNCHANGED <<api_key, entry, gets, exceptGet>>

GetNext == GetCall \/ GetRequest

SpecGet == GetInit /\ [][GetNext]_vars

\* C20: without ODDS_API_KEY no HTTP request is ever issued, and a call of
\* _get or of fetch_champions_league_odds ends raising OddsAPIError with the
\* message about the key.
C20_NoKeyNoRequest ==
    api_key = "" =>
        /\ requests = 0
        /\ gpc # "request"
        /\ gpc = "done" =>
              /\ get_result[1].raised = "OddsAPIError"
              /\ get_result[1].message = "ODDS_API_KEY nao configurada"

\* fetch_champions_league_odds was called without a key, and has ended.
C20_Witness ==
    /\ api_key = ""
    /\ entry = "fetch_champions_league_odds"
    /\ gpc = "done"
    /\ get_result # <<>>


\* The response is one after which the claims let _get request again.
Transient(response) ==
    \/ response.kind = "status" /\ response.status \in {429, 500, 502, 503, 504}
    \/ response.kind = "exception"

\* C21: a call of _get issues at most 4 requests, requests again only after
\* a status 429, 500, 502, 503 or 504 or a request exception that is no HTTP
\* error, sleeps 2, 4 and 6 seconds before its retries, and ends returning
\* the payload or raising an OddsAPIError.
C21_BoundedRetriesEndInOddsAPIError ==
    gpc \in {"request", "done"} =>
        /\ attempts <= 4
        /\ Len(slept) = IF gpc = "done" /\ attempts > 0 THEN attempts - 1 ELSE attempts
        /\ \A i \in 1..Len(slept) : slept[i] = 2 * i
        /\ gpc = "request" /\ attempts > 0 => Transient(resp[1])
        /\ gpc = "done" =>
              get_result[1].raised \in {"", "OddsAPIError", "OddsAPIHTTPError"}


\* The response is a permanent HTTP failure: a 4xx status other than 429.
Permanent(response) ==
    /\ response.kind = "status"
    /\ response.status \in 400..499
    /\ response.status # 429

\* C22: after a response with a 4xx status other than 429 _get requests no
\* more (one request when it is the first response) and raises
\* OddsAPIHTTPError with the status of the response and the detail the
\* server gave.
C22_PermanentFailureCarriesStatusAndDetail ==
    resp # <<>> /\ Permanent(resp[1]) =>
        /\ gpc = "done"
        /\ slept = <<>> => attempts = 1
        /\ get_result[1].raised = "OddsAPIHTTPError"
        /\ get_result[1].status_code = resp[1].status
        /\ resp[1].detail # "" => get_result[1].detail = resp[1].detail


\* C23: a run whose odds fetch failed, with whatever exception, does not end
\* in that exception: it shows a warning and goes on with the retained
\* snapshot or with an empty frame.
C23_NoFetchFailureEscapes ==
    odds_call # <<>> /\ odds_call[1].ended = "raised" /\ vpc # "idle" =>
        /\ render_error = <<>> \/ render_error[1].at # "odds"
        /\ shown # <<>>
        /\ shown[1] \in {"warning: last valid cache in use", "warning: no odds"}
        /\ IF last_success # <<>>
           THEN odds_raw_df = last_success[1].df
           ELSE odds_raw_df = <<>>


\* C24: after a call of upsert_df that merged a batch, the table has the
\* columns it had and those of the batch; a row whose key is not in the
\* batch has the values it had and NULL in the added columns; a row whose
\* key is in the batch has the values it had in the columns the batch lacks.
C24_WidensWithoutLoss ==
    upsert_result # <<>> /\ upsert_result[1].raised = "" /\ upsert_result[1].df.rows # <<>> =>
        LET before == upsert_result[1].before
            df == upsert_result[1].df
            InBatch(t) == \E j \in 1..Len(df.rows) : df.rows[j]["id"] = t["id"]
        IN  /\ raw_matches.columns = before.columns \cup df.columns
            /\ Len(raw_matches.rows) >= Len(before.rows)
            /\ \A i \in 1..Len(before.rows) :
                  /\ \A c \in df.columns \ before.columns :
                        ~InBatch(before.rows[i]) => raw_matches.rows[i][c] = NULL
                  /\ \A c \in before.columns :
                        c \notin df.columns \/ ~InBatch(before.rows[i]) =>
                            raw_matches.rows[i][c] = before.rows[i][c]

\* The table had a score for match 1 and none for match 2, from a wider
\* batch; a batch without the score column then changed the status of match
\* 1, which still has its score.
C24_Witness ==
    /\ upsert_result # <<>>
    /\ upsert_result[1].raised = ""
    /\ "score" \in upsert_result[1].before.columns
    /\ "score" \notin upsert_result[1].df.columns
    /\ \E i \in 1..Len(raw_matches.rows) :
          /\ raw_matches.rows[i]["id"] = "1"
          /\ raw_matches.rows[i]["score"] = "3"
          /\ raw_matches.rows[i]["status"] # upsert_result[1].before.rows[i]["status"]
    /\ \E i \in 1..Len(raw_matches.rows) :
          /\ raw_matches.rows[i]["id"] = "2"
          /\ raw_matches.rows[i]["score"] = NULL


\* The events of the odds frame in use whose teams are the given pair of
\* keys, in that order.
EventsOfPair(home, away) ==
    { e \in { odds_raw_df[i].event_id : i \in 1..Len(odds_raw_df) } :
        \E i \in 1..Len(odds_raw_df) :
            /\ odds_raw_df[i].event_id = e
            /\ NormKey(odds_raw_df[i].home_team) = home
            /\ NormKey(odds_raw_df[i].away_team) = away }

\* C25: a run in debug mode that is past the odds fetch ends having shown
\* the swapped report, with the reversed events listed, exactly when no
\* event has the fixture's pair of keys and one has it reversed; the exact
\* report with the exact events when one has the pair; and the report of no
\* coverage when none has the pair in either order.
C25_DebugReportsSwapped ==
    debug_odds /\ RenderEnded /\ OddsSectionDone =>
        LET home == NormKey(selected_fixture_df[1].home_team)
            away == NormKey(selected_fixture_df[1].away_team)
            exact == EventsOfPair(home, away)
            swapped == EventsOfPair(away, home)
            Shows(message) == \E i \in 1..Len(shown) : shown[i] = message
        IN  /\ Shows("debug: swapped") <=> exact = {} /\ swapped # {}
            /\ Shows("debug: swapped") => debug_events = swapped
            /\ exact # {} => Shows("debug: exact") /\ debug_events = exact
            /\ exact = {} /\ swapped = {} => Shows("debug: no coverage")


(***************************************************************************)
(* scripts/fetch_champions_league_2025.py: http_get                        *)
(*                                                                         *)
(* The call uses the variables of the odds client: attempts, slept, resp   *)
(* and get_result are those of http_get, api_key is the token and entry is *)
(* "http_get".                                                             *)
(***************************************************************************)
\* "attempts < 5" and min(..., 16).
HTTP_GET_ATTEMPTS == 5
BACKOFF_CAP == 16

\* get_token(): None ("") or the token of the environment.
Tokens == {"", "t"}

\* A script that also requests again after status 500.
HttpGetRetryStatuses_With500 == {429, 500, 503}

\* Line 51: status in (429, 503)
HttpGetRetryStatuses == {429, 503}

\* What urlopen, resp.read() and json.loads end with: a JSON body, a body
\* that is no JSON, an HTTPError with its status, or a URLError.
HttpGetResponses ==
    [kind : {"json", "text"}, payload : {<<>>}, status : {200}, detail : {""}]
        \cup [kind : {"status"}, payload : {<<>>},
               status : {404, 429, 500, 503}, detail : {"body"}]
        \cup [kind : {"exception"}, payload : {<<>>}, status : {0}, detail : {""}]

\* time.sleep(min(2 ** attempts, 16))
Backoff(n) == IF 2 ^ n < BACKOFF_CAP THEN 2 ^ n ELSE BACKOFF_CAP

\* Lines 42-62: what one pass of the loop does with the response of its
\* request, n being attempts after attempts += 1.
HttpGetPass(response, n) ==
    CASE response.kind = "status" ->
           IF response.status \in HttpGetRetryStatuses /\ n < HTTP_GET_ATTEMPTS
           THEN [again |-> TRUE, sleep |-> Backoff(n), result |-> <<>>]
           ELSE [again |-> FALSE, sleep |-> 0,
                 result |-> GetRaised("RuntimeError", response.status, "HTTP status for url",
                                      response.detail)]
      [] response.kind = "exception" ->
           IF n < HTTP_GET_ATTEMPTS
           THEN [again |-> TRUE, sleep |-> Backoff(n), result |-> <<>>]
           ELSE [again |-> FALSE, sleep |-> 0,
                 result |-> GetRaised("RuntimeError", 0, "Network error for url", "URLError")]
      [] response.kind = "text" ->
           [again |-> FALSE, sleep |-> 0, result |-> GetRaised("JSONDecodeError", 0, "", "")]
      [] OTHER ->
           [again |-> FALSE, sleep |-> 0, result |-> GetReturned(response.payload)]

HttpGetInit ==
    /\ api_key \in Tokens
    /\ entry = "http_get"
    /\ attempts = 0
    /\ requests = 0
    /\ slept = <<>>
    /\ get_result = <<>>
    /\ gets = 0
    /\ resp = <<>>
    /\ gpc = "idle"
    /\ NormaliserOff
    /\ SummariesOff
    /\ OddsOff
    /\ RenderOff
    /\ SelectionOff
    /\ TwiceOff
    /\ DatabaseOff
    /\ UpsertOff
    /\ EtlOff
    /\ ChunkOff
    /\ WatermarkOff

\* Lines 26-41: the call, up to the loop.
HttpGetCall ==
    /\ gpc \in {"idle", "done"}
    /\ gets < MaxGets
    /\ gets' = gets + 1
    /\ attempts' = 0
    /\ slept' = <<>>
    /\ resp' = <<>>
    /\ get_result' = <<>>
    /\ gpc' = "request"
    /\ UNCHANGED <<api_key, entry, requests, exceptGet>>

\* Lines 42-62: one pass of the loop, with its request.
HttpGetRequest ==
    /\ gpc = "request"
    /\ attempts' = attempts + 1
    /\ requests' = requests + 1
    /\ \E response \in HttpGetResponses :
          LET pass == HttpGetPass(response, attempts + 1)
          IN  /\ resp' = <<response>>
              /\ IF pass.again
                 THEN /\ slept' = Append(slept, pass.sleep)
                      /\ UNCHANGED <<get_result, gpc>>
                 ELSE /\ get_result' = <<pass.result>>
                      /\ gpc' = "done"
                      /\ slept' = slept
    /\ UNCHANGED <<api_key, entry, gets, exceptGet>>

HttpGetNext == HttpGetCall \/ HttpGetRequest

SpecHttpGet == HttpGetInit /\ [][HttpGetNext]_vars

\* The response is a failure of the request: an HTTP error status or a
\* network failure.
RequestFailed(response) == response.kind \in {"status", "exception"}

\* C26: a call of http_get makes at most 5 requests; it requests again only
\* after status 429 or 503 or a network failure, having waited 2, 4, 8 and
\* 16 seconds before the second to fifth request; it raises RuntimeError at
\* the first response with another error status, and when the fifth
\* request fails.
C26_HttpGetBoundedRetries ==
    gpc \in {"request", "done"} =>
        /\ attempts <= 5
        /\ Len(slept) = IF gpc = "done" THEN attempts - 1 ELSE attempts
        /\ \A i \in 1..Len(slept) : slept[i] = CASE i = 1 -> 2 [] i = 2 -> 4
                                                 [] i = 3 -> 8 [] OTHER -> 16
        /\ gpc = "request" /\ attempts > 0 =>
              \/ resp[1].kind = "status" /\ resp[1].status \in {429, 503}
              \/ resp[1].kind = "exception"
        /\ resp # <<>> /\ resp[1].kind = "status" /\ resp[1].status \notin {429, 503} =>
              gpc = "done" /\ get_result[1].raised = "RuntimeError"
        /\ attempts = 5 /\ RequestFailed(resp[1]) =>
              gpc = "done" /\ get_result[1].raised = "RuntimeError"

\* The fifth request of a call was answered 503, after the sleeps 2, 4, 8
\* and 16, and the call raised RuntimeError.
C26_Witness ==
    /\ entry = "http_get"
    /\ gpc = "done"
    /\ attempts = 5
    /\ slept = <<2, 4, 8, 16>>
    /\ resp[1].status = 503
    /\ get_result[1].raised = "RuntimeError"


(***************************************************************************)
(* _chunk_date_range                                                       *)
(*                                                                         *)
(* A date is its day number, 0..MaxDay: MaxDay stands for date.max, past   *)
(* which date + timedelta raises OverflowError.  The generator is given by *)
(* what iterating it to its end gives: the chunks yielded and the          *)
(* exception, if any, that ended the iteration.                            *)
(***************************************************************************)
\* The last day a date can be, and the longest window tried besides the
\* default.
MaxDay == 9
MaxWindow == 3

MAX_WINDOW_DAYS == 7

Days == 0..MaxDay
Windows == (0..MaxWindow) \cup {MAX_WINDOW_DAYS}

\* A chunk end that is not cut at the end of the range.
ChunkEnd_Uncut(current, end, window_days) == current + (window_days - 1)

\* Line 31: chunk_end = min(current + timedelta(days=window_days - 1), end)
ChunkEnd(current, end, window_days) ==
    IF current + (window_days - 1) < end THEN current + (window_days - 1) ELSE end

\* Lines 30-33: the loop, from current on.
RECURSIVE ChunksFrom(_, _, _)
ChunksFrom(current, end, window_days) ==
    IF current > end THEN [raised |-> "", chunks |-> <<>>]
    ELSE IF current + (window_days - 1) > MaxDay
    THEN [raised |-> "OverflowError", chunks |-> <<>>]
    ELSE LET chunk_end == ChunkEnd(current, end, window_days)
         IN  IF chunk_end + 1 > MaxDay
             THEN [raised |-> "OverflowError", chunks |-> << <<current, chunk_end>> >>]
             ELSE LET rest == ChunksFrom(chunk_end + 1, end, window_days)
                  IN  [raised |-> rest.raised,
                       chunks |-> << <<current, chunk_end>> >> \o rest.chunks]

\* _chunk_date_range(start, end, window_days)
_chunk_date_range(start, end, window_days) ==
    IF window_days < 1 THEN [raised |-> "ValueError", chunks |-> <<>>]
    ELSE IF start > end THEN ChunksFrom(end, start, window_days)
    ELSE ChunksFrom(start, end, window_days)

ChunkInit ==
    /\ chunk_call = <<>>
    /\ cpc = "idle"
    /\ NormaliserOff
    /\ SummariesOff
    /\ OddsOff
    /\ RenderOff
    /\ SelectionOff
    /\ TwiceOff
    /\ DatabaseOff
    /\ UpsertOff
    /\ EtlOff
    /\ GetOff
    /\ WatermarkOff

\* list(_chunk_date_range(start, end, window_days))
ChunkCall ==
    /\ cpc = "idle"
    /\ \E start \in Days, end \in Days, window_days \in Windows :
          chunk_call' = <<[start |-> start, end |-> end, window_days |-> window_days,
                           result |-> _chunk_date_range(start, end, window_days)]>>
    /\ UNCHANGED <<cpc, exceptChunk>>

ChunkNext == ChunkCall

SpecChunk == ChunkInit /\ [][ChunkNext]_vars

\* The chunks, in order, cut the days lo..hi into pieces of at most
\* window_days days: the first starts at lo, the last ends at hi, each is
\* not empty and each starts the day after the one before ended.
Partition(chunks, lo, hi, window_days) ==
    /\ chunks # <<>>
    /\ chunks[1][1] = lo
    /\ chunks[Len(chunks)][2] = hi
    /\ \A i \in 1..Len(chunks) :
          /\ chunks[i][1] <= chunks[i][2]
          /\ chunks[i][2] - chunks[i][1] + 1 <= window_days
    /\ \A i \in 1..(Len(chunks) - 1) : chunks[i + 1][1] = chunks[i][2] + 1

\* The earlier and the later of the two dates of the call.
Lo == IF chunk_call[1].start < chunk_call[1].end THEN chunk_call[1].start ELSE chunk_call[1].end
Hi == IF chunk_call[1].start < chunk_call[1].end THEN chunk_call[1].end ELSE chunk_call[1].start

\* C27: for all dates and every window_days >= 1 the iteration
\* ends without exception and its chunks partition the range; a
\* window_days < 1 raises ValueError.
C27_ChunksPartitionEveryRange ==
    chunk_call # <<>> =>
        IF chunk_call[1].window_days < 1
        THEN chunk_call[1].result.raised = "ValueError"
        ELSE /\ chunk_call[1].result.raised = ""
             /\ Partition(chunk_call[1].result.chunks, Lo, Hi, chunk_call[1].window_days)

\* What the code does give: the partition in the calls in which no date
\* computed leaves the range of date, which is so whenever the later date
\* plus window_days days is no later than date.max; the other calls end in
\* OverflowError.
ChunksPartitionRangeWithinDates ==
    chunk_call # <<>> =>
        IF chunk_call[1].window_days < 1
        THEN chunk_call[1].result.raised = "ValueError"
        ELSE /\ chunk_call[1].result.raised \in {"", "OverflowError"}
             /\ Hi + chunk_call[1].window_days <= MaxDay => chunk_call[1].result.raised = ""
             /\ chunk_call[1].result.raised = "" =>
                   Partition(chunk_call[1].result.chunks, Lo, Hi, chunk_call[1].window_days)


(***************************************************************************)
(* The watermark setters, called on any key                                *)
(*                                                                         *)
(* updated_at, which every call sets to now(), is not part of the rows     *)
(* here: no function of the repository reads it.                           *)
(***************************************************************************)
\* The latest time a setter is called with.
MaxSetTime == 3

\* datetime | None: the values a setter is called with.
SetterValues == {NullTime} \cup { <<t>> : t \in 1..MaxSetTime }

WatermarkInit ==
    /\ raw_matches = NoTable
    /\ watermarks = [k \in WatermarkKeys |-> <<>>]
    /\ wm_call = <<>>
    /\ wpc = "idle"
    /\ NormaliserOff
    /\ SummariesOff
    /\ OddsOff
    /\ RenderOff
    /\ SelectionOff
    /\ TwiceOff
    /\ UpsertOff
    /\ EtlOff
    /\ GetOff
    /\ ChunkOff

SetterCall(setter, k, value) ==
    <<[setter |-> setter, key |-> k, value |-> value, before |-> watermarks]>>

\* set_last_success_at(source, entity, key, value)
SetLastSuccessAt ==
    /\ wpc = "idle"
    /\ \E k \in WatermarkKeys, value \in SetterValues :
          /\ watermarks' = set_last_success_at(watermarks, k, value)
          /\ wm_call' = SetterCall("set_last_success_at", k, value)
    /\ UNCHANGED <<wpc, raw_matches, exceptWatermark>>

\* set_high_watermark(source, entity, key, value)
SetHighWatermark ==
    /\ wpc = "idle"
    /\ \E k \in WatermarkKeys, value \in SetterValues :
          /\ watermarks' = set_high_watermark(watermarks, k, value)
          /\ wm_call' = SetterCall("set_high_watermark", k, value)
    /\ UNCHANGED <<wpc, raw_matches, exceptWatermark>>

\* set_watermark(entity, value): set_high_watermark("default", entity,
\* "global", value)
SetWatermark ==
    /\ wpc = "idle"
    /\ \E value \in SetterValues :
          /\ watermarks' = set_high_watermark(watermarks, <<"default", ENTITY, "global">>, value)
          /\ wm_call' = SetterCall("set_watermark", <<"default", ENTITY, "global">>, value)
    /\ UNCHANGED <<wpc, raw_matches, exceptWatermark>>

WatermarkNext ==
    \/ SetLastSuccessAt
    \/ SetHighWatermark
    \/ SetWatermark

SpecWatermark == WatermarkInit /\ [][WatermarkNext]_vars

\* The column a setter writes.
OwnColumn(setter) ==
    IF setter = "set_last_success_at" THEN "last_success_at" ELSE "high_watermark"

OtherColumn(setter) ==
    IF setter = "set_last_success_at" THEN "high_watermark" ELSE "last_success_at"

Successful == etl_sum.ok

\* C29: each successful run's first requested date is no later than the
\* day after the last date the successful run before it requested, and
\* every date from the first requested date of the first successful run to
\* the date of the stored high watermark was requested by a successful run.
C29_WindowsLeaveNoGap ==
    /\ \A i \in 1..(Len(Successful) - 1) :
          Successful[i + 1].window[1] <= Successful[i].window[2] + 1
    /\ etl_sum.first # <<>> =>
          \A d \in etl_sum.first[1]..date(get_high_watermark(watermarks, DailyKey)) :
              d \in etl_sum.covered


\* C30: when no run is in progress the stored last_success_at and
\* high_watermark of daily_etl's key are both unset, when no run was
\* successful, or both the end time of the most recent successful run.
C30_WatermarksInStep ==
    epc = "idle" =>
        /\ _get_value(watermarks, DailyKey, "last_success_at")
              = _get_value(watermarks, DailyKey, "high_watermark")
        /\ _get_value(watermarks, DailyKey, "high_watermark")
              = IF Successful = <<>> THEN NullTime
                ELSE <<Successful[Len(Successful)].ended>>

=============================================================================
